---- MODULE Spec2Model ----
(***************************************************************************)
(* Model of the scrapper dashboard back end:                               *)
(*   - POST /api/summarize   (src/app/api/summarize/route.ts)              *)
(*   - GET  /api/aggregations (src/components/ui/chart.tsx, lines 29-211)  *)
(*   - GET  /api/items       (src/app/api/items/route.ts)                  *)
(* Strings are sequences of one-character strings, so that trimming,       *)
(* lower-casing, slicing, splitting, substring search and parseInt are     *)
(* computed the way the JavaScript code computes them.                     *)
(***************************************************************************)
EXTENDS Integers, Sequences, FiniteSets, TLC

\* env:     the process environment (OPENAI_API_KEY, JSON_PATH)
\* files:   the dataset documents found at each location
\* pending: the request being received, with what the network will answer it
\* last:    the request last handled, with the handler's response
VARIABLES env, files, pending, last, dashboard

vars == <<env, files, pending, last, dashboard>>

----------------------------------------------------------------------------
(* JavaScript string primitives                                            *)

\* The characters the model uses, in UTF-16 code unit order.  A character is
\* a one-character string; the three characters beyond ASCII are named by
\* their code points.
Alphabet ==
  << "\n", " ", "!", "&", "'", ",", "-", ".", "/", "0", "1", "2", "3", "4", "5", "6",
     "7", "8", "9", ":", "?", "A", "B", "C", "D", "E", "F", "G", "H", "I",
     "J", "K", "L", "M", "N", "O", "P", "Q", "R", "S", "T", "U", "V", "W",
     "X", "Y", "Z", "_", "a", "b", "c", "d", "e", "f", "g", "h", "i", "j", "k",
     "l", "m", "n", "o", "p", "q", "r", "s", "t", "u", "v", "w", "x", "y",
     "z", "U+00A6", "U+00E2", "U+20AC" >>

Chars == { Alphabet[i] : i \in DOMAIN Alphabet }

\* Position of a character in code unit order (String.prototype.charCodeAt).
Code == [ c \in Chars |-> CHOOSE i \in DOMAIN Alphabet : Alphabet[i] = c ]

UpperA == Code["A"]
UpperZ == Code["Z"]
LowerA == Code["a"]
LowerZ == Code["z"]
Digit0 == Code["0"]
Digit9 == Code["9"]

IsSpace(c) == c \in {" ", "\n"}
IsDigit(c) == Code[c] >= Digit0 /\ Code[c] <= Digit9
IsLowerLetter(c) == Code[c] >= LowerA /\ Code[c] <= LowerZ

\* String.prototype.toLowerCase, character by character.
LowerChar(c) ==
  IF Code[c] >= UpperA /\ Code[c] <= UpperZ
  THEN Alphabet[Code[c] - UpperA + LowerA]
  ELSE c

toLowerCase(s) == [ i \in DOMAIN s |-> LowerChar(s[i]) ]

trimStart(s) ==
  IF \A i \in DOMAIN s : IsSpace(s[i]) THEN <<>>
  ELSE SubSeq(s, CHOOSE i \in DOMAIN s :
                   ~IsSpace(s[i]) /\ \A j \in 1..(i - 1) : IsSpace(s[j]),
              Len(s))

trimEnd(s) ==
  IF \A i \in DOMAIN s : IsSpace(s[i]) THEN <<>>
  ELSE SubSeq(s, 1, CHOOSE i \in DOMAIN s :
                      ~IsSpace(s[i]) /\ \A j \in (i + 1)..Len(s) : IsSpace(s[j]))

\* String.prototype.trim
trim(s) ==
  IF \A i \in DOMAIN s : IsSpace(s[i]) THEN <<>>
  ELSE SubSeq(s,
              CHOOSE i \in DOMAIN s :
                ~IsSpace(s[i]) /\ \A j \in 1..(i - 1) : IsSpace(s[j]),
              CHOOSE i \in DOMAIN s :
                ~IsSpace(s[i]) /\ \A j \in (i + 1)..Len(s) : IsSpace(s[j]))

\* String.prototype.slice(from, to) for 0 <= from, 0 <= to (zero based, end
\* exclusive, clipped to the length).
slice(s, from, to) ==
  LET hi == IF to > Len(s) THEN Len(s) ELSE to
  IN  IF from >= hi THEN <<>> ELSE SubSeq(s, from + 1, hi)

\* String.prototype.includes: kw occurs as a contiguous substring of s.
includes(s, kw) ==
  \/ kw = <<>>
  \/ \E i \in 0..(Len(s) - Len(kw)) :
       s[i + 1] = kw[1] /\ SubSeq(s, i + 1, i + Len(kw)) = kw

\* String.prototype.indexOf for a single character (0 when absent, else the
\* one-based position).
IndexOfChar(s, c) ==
  IF \E i \in DOMAIN s : s[i] = c
  THEN CHOOSE i \in DOMAIN s : s[i] = c /\ \A j \in 1..(i - 1) : s[j] # c
  ELSE 0

\* The relational operators < and > on two strings: code unit order.
StrLess(a, b) ==
  LET n == IF Len(a) < Len(b) THEN Len(a) ELSE Len(b)
  IN  IF \E i \in 1..n : a[i] # b[i]
      THEN LET d == CHOOSE i \in 1..n :
                      a[i] # b[i] /\ \A j \in 1..(i - 1) : a[j] = b[j]
           IN  Code[a[d]] < Code[b[d]]
      ELSE Len(a) < Len(b)

\* Array.prototype.join
RECURSIVE join(_, _)
join(parts, sep) ==
  IF parts = <<>> THEN <<>>
  ELSE IF Len(parts) = 1 THEN parts[1]
  ELSE parts[1] \o sep \o join(Tail(parts), sep)

\* Ascending sort of a set of integers: .sort((a, b) => a - b)
RECURSIVE SortAscending(_)
SortAscending(S) ==
  IF S = {} THEN <<>>
  ELSE LET m == CHOOSE x \in S : \A y \in S : x <= y
       IN  <<m>> \o SortAscending(S \ {m})

\* The maximal runs of positions of s selected by mask (a Boolean for each
\* position), as substrings in order: what a global regular expression
\* match of a character class yields, and what is left between the
\* separators of a split.
RunStarts(mask) ==
  { a \in DOMAIN mask : mask[a] /\ (a = 1 \/ ~mask[a - 1]) }

RunEnd(mask, a) ==
  CHOOSE b \in a..Len(mask) :
    /\ b = Len(mask) \/ ~mask[b + 1]
    /\ \A i \in a..b : mask[i]

RunsFrom(s, mask, starts) ==
  [ k \in DOMAIN starts |-> SubSeq(s, starts[k], RunEnd(mask, starts[k])) ]

Runs(s, mask) ==
  CHOOSE r \in { RunsFrom(s, mask, starts) :
                   starts \in { SortAscending(RunStarts(mask)) } } : TRUE

----------------------------------------------------------------------------
(* src/app/api/summarize/route.ts: text engines                            *)

\* s.replace(/\s+/g, ' '): every run of white space becomes one space.
collapseSpace(s) ==
  LET kept == SortAscending({ i \in DOMAIN s :
                               ~IsSpace(s[i]) \/ i = 1 \/ ~IsSpace(s[i - 1]) })
  IN  [ k \in DOMAIN kept |-> IF IsSpace(s[kept[k]]) THEN " " ELSE s[kept[k]] ]

normalizeSpace(text) ==
  IF trim(text) = <<>> THEN <<>> ELSE trim(collapseSpace(text))

\* The text of the longest candidate container (its p/li parts normalized
\* and joined by newlines), else of every paragraph of the page.  A parsed
\* page is [title, h1, candidates, paragraphs]: the text of the first title
\* and h1 elements, the p/li texts of each matching candidate selector in
\* selector order, and the texts of all p elements.
NormalizeAndJoin(kept) ==
  join([ i \in DOMAIN kept |-> normalizeSpace(kept[i]) ], <<"\n">>)

PartsText(parts) ==
  CHOOSE r \in { NormalizeAndJoin(kept) :
                   kept \in { SelectSeq(parts, LAMBDA t : trim(t) # <<>>) } } : TRUE

RECURSIVE LongestCandidate(_, _)
LongestCandidate(candidates, best) ==
  IF candidates = <<>> THEN best
  ELSE LET text == PartsText(Head(candidates))
       IN  LongestCandidate(Tail(candidates),
                            IF Len(text) > Len(best) THEN text ELSE best)

extractMainText(page) ==
  LET best == LongestCandidate(page.candidates, <<>>)
  IN  normalizeSpace(IF best = <<>> THEN PartsText(page.paragraphs) ELSE best)

IsTerminal(c) == c \in {".", "!", "?"}

\* Position i of body lies in a run of white space that directly follows a
\* sentence terminal: it is part of a separator of /(?<=[\.!?])\s+/.
IsSeparator(body, i) ==
  /\ IsSpace(body[i])
  /\ \E p \in 1..(i - 1) :
       /\ IsTerminal(body[p])
       /\ \A j \in (p + 1)..i : IsSpace(body[j])

\* body.split(/(?<=[\.!?])\s+/), without the empty pieces (which the
\* caller drops).
splitSentences(body) ==
  CHOOSE r \in { Runs(body, mask) :
                   mask \in { [ i \in DOMAIN body |-> ~IsSeparator(body, i) ] } } : TRUE

\* .map(s => s.trim()).filter(Boolean)
TrimAndDropEmpty(pieces) ==
  SelectSeq([ i \in DOMAIN pieces |-> trim(pieces[i]) ], LAMBDA s : s # <<>>)

Sentences(body) ==
  CHOOSE r \in { TrimAndDropEmpty(pieces) :
                   pieces \in { splitSentences(body) } } : TRUE

IsWordChar(c) == IsLowerLetter(c) \/ c = "'"

\* s.match(/[a-z']+/g) || []
matchWords(s) ==
  CHOOSE r \in { Runs(s, mask) :
                   mask \in { [ i \in DOMAIN s |-> IsWordChar(s[i]) ] } } : TRUE

\* The catalogue of thematic areas: <<label, <<keyword, weight>> ...>>.
areas ==
  <<
    \* Gender in fisheries and aquaculture
    << <<"G", "e", "n", "d", "e", "r", " ", "i", "n", " ", "f", "i", "s", "h", "e", "r", "i", "e", "s", " ", "a", "n", "d", " ", "a", "q", "u", "a", "c", "u", "l", "t", "u", "r", "e">>,
       <<
         << <<"f", "i", "s", "h", "e", "r", "i", "e", "s">>, 3 >>,   \* fisheries
         << <<"a", "q", "u", "a", "c", "u", "l", "t", "u", "r", "e">>, 3 >>,   \* aquaculture
         << <<"f", "i", "s", "h", "e", "r">>, 2 >>,   \* fisher
         << <<"f", "i", "s", "h", "i", "n", "g">>, 2 >>,   \* fishing
         << <<"f", "i", "s", "h", " ", "v", "a", "l", "u", "e", " ", "c", "h", "a", "i", "n">>, 4 >>,   \* fish value chain
         << <<"m", "a", "r", "i", "n", "e">>, 2 >>,   \* marine
         << <<"c", "o", "a", "s", "t", "a", "l">>, 2 >>,   \* coastal
         << <<"s", "e", "a", "f", "o", "o", "d">>, 2 >>    \* seafood
       >> >>,
    \* Gender in forestry and agroforestry
    << <<"G", "e", "n", "d", "e", "r", " ", "i", "n", " ", "f", "o", "r", "e", "s", "t", "r", "y", " ", "a", "n", "d", " ", "a", "g", "r", "o", "f", "o", "r", "e", "s", "t", "r", "y">>,
       <<
         << <<"f", "o", "r", "e", "s", "t", "r", "y">>, 3 >>,   \* forestry
         << <<"f", "o", "r", "e", "s", "t">>, 2 >>,   \* forest
         << <<"a", "g", "r", "o", "f", "o", "r", "e", "s", "t", "r", "y">>, 3 >>,   \* agroforestry
         << <<"w", "o", "o", "d", "l", "o", "t">>, 3 >>,   \* woodlot
         << <<"n", "o", "n", "-", "t", "i", "m", "b", "e", "r", " ", "f", "o", "r", "e", "s", "t">>, 4 >>,   \* non-timber forest
         << <<"n", "t", "f", "p">>, 3 >>,   \* ntfp
         << <<"t", "i", "m", "b", "e", "r">>, 2 >>,   \* timber
         << <<"d", "e", "f", "o", "r", "e", "s", "t", "a", "t", "i", "o", "n">>, 2 >>    \* deforestation
       >> >>,
    \* Gender and livestock
    << <<"G", "e", "n", "d", "e", "r", " ", "a", "n", "d", " ", "l", "i", "v", "e", "s", "t", "o", "c", "k">>,
       <<
         << <<"l", "i", "v", "e", "s", "t", "o", "c", "k">>, 3 >>,   \* livestock
         << <<"p", "a", "s", "t", "o", "r", "a", "l">>, 3 >>,   \* pastoral
         << <<"p", "a", "s", "t", "o", "r", "a", "l", "i", "s", "t">>, 3 >>,   \* pastoralist
         << <<"h", "e", "r", "d">>, 2 >>,   \* herd
         << <<"a", "n", "i", "m", "a", "l", " ", "h", "e", "a", "l", "t", "h">>, 4 >>,   \* animal health
         << <<"s", "m", "a", "l", "l", " ", "r", "u", "m", "i", "n", "a", "n", "t">>, 4 >>,   \* small ruminant
         << <<"c", "a", "t", "t", "l", "e">>, 2 >>,   \* cattle
         << <<"g", "o", "a", "t">>, 2 >>,   \* goat
         << <<"s", "h", "e", "e", "p">>, 2 >>,   \* sheep
         << <<"p", "o", "u", "l", "t", "r", "y">>, 2 >>,   \* poultry
         << <<"d", "a", "i", "r", "y">>, 2 >>    \* dairy
       >> >>,
    \* Gender and plant production and protection
    << <<"G", "e", "n", "d", "e", "r", " ", "a", "n", "d", " ", "p", "l", "a", "n", "t", " ", "p", "r", "o", "d", "u", "c", "t", "i", "o", "n", " ", "a", "n", "d", " ", "p", "r", "o", "t", "e", "c", "t", "i", "o", "n">>,
       <<
         << <<"p", "l", "a", "n", "t", " ", "p", "r", "o", "d", "u", "c", "t", "i", "o", "n">>, 4 >>,   \* plant production
         << <<"c", "r", "o", "p">>, 2 >>,   \* crop
         << <<"c", "r", "o", "p", " ", "p", "r", "o", "d", "u", "c", "t", "i", "o", "n">>, 4 >>,   \* crop production
         << <<"p", "l", "a", "n", "t", " ", "p", "r", "o", "t", "e", "c", "t", "i", "o", "n">>, 4 >>,   \* plant protection
         << <<"i", "p", "m">>, 3 >>,   \* ipm
         << <<"i", "n", "t", "e", "g", "r", "a", "t", "e", "d", " ", "p", "e", "s", "t">>, 4 >>,   \* integrated pest
         << <<"s", "e", "e", "d">>, 2 >>,   \* seed
         << <<"a", "g", "r", "o", "n", "o", "m", "y">>, 3 >>,   \* agronomy
         << <<"p", "l", "a", "n", "t", " ", "h", "e", "a", "l", "t", "h">>, 4 >>,   \* plant health
         << <<"p", "e", "s", "t", "i", "c", "i", "d", "e">>, 2 >>    \* pesticide
       >> >>,
    \* Gender and innovative and labour-saving technologies
    << <<"G", "e", "n", "d", "e", "r", " ", "a", "n", "d", " ", "i", "n", "n", "o", "v", "a", "t", "i", "v", "e", " ", "a", "n", "d", " ", "l", "a", "b", "o", "u", "r", "-", "s", "a", "v", "i", "n", "g", " ", "t", "e", "c", "h", "n", "o", "l", "o", "g", "i", "e", "s">>,
       <<
         << <<"i", "n", "n", "o", "v", "a", "t", "i", "o", "n">>, 2 >>,   \* innovation
         << <<"i", "n", "n", "o", "v", "a", "t", "i", "v", "e">>, 2 >>,   \* innovative
         << <<"t", "e", "c", "h", "n", "o", "l", "o", "g", "y">>, 2 >>,   \* technology
         << <<"t", "e", "c", "h", "n", "o", "l", "o", "g", "i", "e", "s">>, 2 >>,   \* technologies
         << <<"l", "a", "b", "o", "u", "r", "-", "s", "a", "v", "i", "n", "g">>, 4 >>,   \* labour-saving
         << <<"l", "a", "b", "o", "r", "-", "s", "a", "v", "i", "n", "g">>, 4 >>,   \* labor-saving
         << <<"m", "e", "c", "h", "a", "n", "i", "z", "a", "t", "i", "o", "n">>, 3 >>,   \* mechanization
         << <<"m", "e", "c", "h", "a", "n", "i", "s", "a", "t", "i", "o", "n">>, 3 >>,   \* mechanisation
         << <<"t", "o", "o", "l", "s">>, 2 >>,   \* tools
         << <<"e", "q", "u", "i", "p", "m", "e", "n", "t">>, 2 >>,   \* equipment
         << <<"d", "i", "g", "i", "t", "a", "l">>, 2 >>,   \* digital
         << <<"i", "c", "t">>, 3 >>,   \* ict
         << <<"m", "o", "b", "i", "l", "e">>, 2 >>,   \* mobile
         << <<"a", "p", "p">>, 2 >>    \* app
       >> >>,
    \* Gender and land and water
    << <<"G", "e", "n", "d", "e", "r", " ", "a", "n", "d", " ", "l", "a", "n", "d", " ", "a", "n", "d", " ", "w", "a", "t", "e", "r">>,
       <<
         << <<"l", "a", "n", "d", " ", "t", "e", "n", "u", "r", "e">>, 4 >>,   \* land tenure
         << <<"l", "a", "n", "d", " ", "r", "i", "g", "h", "t", "s">>, 4 >>,   \* land rights
         << <<"l", "a", "n", "d">>, 2 >>,   \* land
         << <<"w", "a", "t", "e", "r">>, 2 >>,   \* water
         << <<"i", "r", "r", "i", "g", "a", "t", "i", "o", "n">>, 3 >>,   \* irrigation
         << <<"w", "a", "t", "e", "r", "s", "h", "e", "d">>, 3 >>,   \* watershed
         << <<"w", "a", "t", "e", "r", " ", "m", "a", "n", "a", "g", "e", "m", "e", "n", "t">>, 4 >>,   \* water management
         << <<"l", "a", "n", "d", " ", "g", "o", "v", "e", "r", "n", "a", "n", "c", "e">>, 4 >>,   \* land governance
         << <<"t", "e", "n", "u", "r", "e">>, 3 >>,   \* tenure
         << <<"p", "r", "o", "p", "e", "r", "t", "y", " ", "r", "i", "g", "h", "t", "s">>, 3 >>    \* property rights
       >> >>,
    \* Gender and climate change, agroecology and biodiversity
    << <<"G", "e", "n", "d", "e", "r", " ", "a", "n", "d", " ", "c", "l", "i", "m", "a", "t", "e", " ", "c", "h", "a", "n", "g", "e", ",", " ", "a", "g", "r", "o", "e", "c", "o", "l", "o", "g", "y", " ", "a", "n", "d", " ", "b", "i", "o", "d", "i", "v", "e", "r", "s", "i", "t", "y">>,
       <<
         << <<"c", "l", "i", "m", "a", "t", "e">>, 2 >>,   \* climate
         << <<"c", "l", "i", "m", "a", "t", "e", " ", "c", "h", "a", "n", "g", "e">>, 4 >>,   \* climate change
         << <<"a", "g", "r", "o", "e", "c", "o", "l", "o", "g", "y">>, 4 >>,   \* agroecology
         << <<"b", "i", "o", "d", "i", "v", "e", "r", "s", "i", "t", "y">>, 3 >>,   \* biodiversity
         << <<"m", "i", "t", "i", "g", "a", "t", "i", "o", "n">>, 3 >>,   \* mitigation
         << <<"a", "d", "a", "p", "t", "a", "t", "i", "o", "n">>, 3 >>,   \* adaptation
         << <<"e", "m", "i", "s", "s", "i", "o", "n", "s">>, 3 >>,   \* emissions
         << <<"e", "c", "o", "s", "y", "s", "t", "e", "m">>, 3 >>,   \* ecosystem
         << <<"n", "a", "t", "u", "r", "e", "-", "b", "a", "s", "e", "d">>, 4 >>,   \* nature-based
         << <<"c", "a", "r", "b", "o", "n">>, 2 >>,   \* carbon
         << <<"g", "r", "e", "e", "n", "h", "o", "u", "s", "e">>, 2 >>,   \* greenhouse
         << <<"s", "u", "s", "t", "a", "i", "n", "a", "b", "i", "l", "i", "t", "y">>, 2 >>    \* sustainability
       >> >>,
    \* Gender and emergencies and resilience building
    << <<"G", "e", "n", "d", "e", "r", " ", "a", "n", "d", " ", "e", "m", "e", "r", "g", "e", "n", "c", "i", "e", "s", " ", "a", "n", "d", " ", "r", "e", "s", "i", "l", "i", "e", "n", "c", "e", " ", "b", "u", "i", "l", "d", "i", "n", "g">>,
       <<
         << <<"e", "m", "e", "r", "g", "e", "n", "c", "y">>, 3 >>,   \* emergency
         << <<"h", "u", "m", "a", "n", "i", "t", "a", "r", "i", "a", "n">>, 3 >>,   \* humanitarian
         << <<"c", "r", "i", "s", "i", "s">>, 3 >>,   \* crisis
         << <<"c", "o", "n", "f", "l", "i", "c", "t">>, 3 >>,   \* conflict
         << <<"r", "e", "s", "i", "l", "i", "e", "n", "c", "e">>, 3 >>,   \* resilience
         << <<"s", "h", "o", "c", "k">>, 3 >>,   \* shock
         << <<"d", "i", "s", "a", "s", "t", "e", "r">>, 3 >>,   \* disaster
         << <<"d", "r", "m">>, 4 >>,   \* drm
         << <<"r", "i", "s", "k", " ", "m", "a", "n", "a", "g", "e", "m", "e", "n", "t">>, 4 >>,   \* risk management
         << <<"r", "e", "c", "o", "v", "e", "r", "y">>, 2 >>,   \* recovery
         << <<"r", "e", "l", "i", "e", "f">>, 2 >>    \* relief
       >> >>,
    \* Gender-based violence and protection from sexual exploitation and abuse
    << <<"G", "e", "n", "d", "e", "r", "-", "b", "a", "s", "e", "d", " ", "v", "i", "o", "l", "e", "n", "c", "e", " ", "a", "n", "d", " ", "p", "r", "o", "t", "e", "c", "t", "i", "o", "n", " ", "f", "r", "o", "m", " ", "s", "e", "x", "u", "a", "l", " ", "e", "x", "p", "l", "o", "i", "t", "a", "t", "i", "o", "n", " ", "a", "n", "d", " ", "a", "b", "u", "s", "e">>,
       <<
         << <<"g", "e", "n", "d", "e", "r", "-", "b", "a", "s", "e", "d", " ", "v", "i", "o", "l", "e", "n", "c", "e">>, 4 >>,   \* gender-based violence
         << <<"g", "b", "v">>, 4 >>,   \* gbv
         << <<"v", "i", "o", "l", "e", "n", "c", "e">>, 3 >>,   \* violence
         << <<"p", "r", "o", "t", "e", "c", "t", "i", "o", "n", " ", "f", "r", "o", "m", " ", "s", "e", "x", "u", "a", "l", " ", "e", "x", "p", "l", "o", "i", "t", "a", "t", "i", "o", "n", " ", "a", "n", "d", " ", "a", "b", "u", "s", "e">>, 5 >>,   \* protection from sexual exploitation and abuse
         << <<"p", "s", "e", "a">>, 4 >>,   \* psea
         << <<"h", "a", "r", "a", "s", "s", "m", "e", "n", "t">>, 3 >>,   \* harassment
         << <<"s", "a", "f", "e", "g", "u", "a", "r", "d", "i", "n", "g">>, 3 >>,   \* safeguarding
         << <<"a", "b", "u", "s", "e">>, 3 >>    \* abuse
       >> >>,
    \* Gender and rural financial services
    << <<"G", "e", "n", "d", "e", "r", " ", "a", "n", "d", " ", "r", "u", "r", "a", "l", " ", "f", "i", "n", "a", "n", "c", "i", "a", "l", " ", "s", "e", "r", "v", "i", "c", "e", "s">>,
       <<
         << <<"f", "i", "n", "a", "n", "c", "e">>, 2 >>,   \* finance
         << <<"f", "i", "n", "a", "n", "c", "i", "a", "l", " ", "s", "e", "r", "v", "i", "c", "e", "s">>, 4 >>,   \* financial services
         << <<"m", "i", "c", "r", "o", "f", "i", "n", "a", "n", "c", "e">>, 4 >>,   \* microfinance
         << <<"c", "r", "e", "d", "i", "t">>, 3 >>,   \* credit
         << <<"l", "o", "a", "n", "s">>, 3 >>,   \* loans
         << <<"s", "a", "v", "i", "n", "g", "s">>, 3 >>,   \* savings
         << <<"r", "e", "m", "i", "t", "t", "a", "n", "c", "e", "s">>, 3 >>,   \* remittances
         << <<"b", "a", "n", "k", "i", "n", "g">>, 2 >>,   \* banking
         << <<"f", "i", "n", "a", "n", "c", "i", "a", "l", " ", "i", "n", "c", "l", "u", "s", "i", "o", "n">>, 4 >>    \* financial inclusion
       >> >>,
    \* Gender and decent rural employment and child labour
    << <<"G", "e", "n", "d", "e", "r", " ", "a", "n", "d", " ", "d", "e", "c", "e", "n", "t", " ", "r", "u", "r", "a", "l", " ", "e", "m", "p", "l", "o", "y", "m", "e", "n", "t", " ", "a", "n", "d", " ", "c", "h", "i", "l", "d", " ", "l", "a", "b", "o", "u", "r">>,
       <<
         << <<"d", "e", "c", "e", "n", "t", " ", "w", "o", "r", "k">>, 4 >>,   \* decent work
         << <<"d", "e", "c", "e", "n", "t", " ", "e", "m", "p", "l", "o", "y", "m", "e", "n", "t">>, 4 >>,   \* decent employment
         << <<"r", "u", "r", "a", "l", " ", "e", "m", "p", "l", "o", "y", "m", "e", "n", "t">>, 4 >>,   \* rural employment
         << <<"c", "h", "i", "l", "d", " ", "l", "a", "b", "o", "u", "r">>, 4 >>,   \* child labour
         << <<"c", "h", "i", "l", "d", " ", "l", "a", "b", "o", "r">>, 4 >>,   \* child labor
         << <<"o", "c", "c", "u", "p", "a", "t", "i", "o", "n", "a", "l", " ", "s", "a", "f", "e", "t", "y">>, 4 >>,   \* occupational safety
         << <<"o", "s", "h", "e", "a">>, 4 >>,   \* oshea
         << <<"y", "o", "u", "t", "h", " ", "e", "m", "p", "l", "o", "y", "m", "e", "n", "t">>, 4 >>,   \* youth employment
         << <<"j", "o", "b">>, 2 >>,   \* job
         << <<"w", "o", "r", "k", "p", "l", "a", "c", "e">>, 2 >>    \* workplace
       >> >>,
    \* Gender and investment in sustainable agrifood systems
    << <<"G", "e", "n", "d", "e", "r", " ", "a", "n", "d", " ", "i", "n", "v", "e", "s", "t", "m", "e", "n", "t", " ", "i", "n", " ", "s", "u", "s", "t", "a", "i", "n", "a", "b", "l", "e", " ", "a", "g", "r", "i", "f", "o", "o", "d", " ", "s", "y", "s", "t", "e", "m", "s">>,
       <<
         << <<"i", "n", "v", "e", "s", "t", "m", "e", "n", "t">>, 3 >>,   \* investment
         << <<"i", "n", "v", "e", "s", "t">>, 3 >>,   \* invest
         << <<"s", "u", "s", "t", "a", "i", "n", "a", "b", "l", "e", " ", "a", "g", "r", "i", "f", "o", "o", "d">>, 4 >>,   \* sustainable agrifood
         << <<"i", "n", "f", "r", "a", "s", "t", "r", "u", "c", "t", "u", "r", "e">>, 3 >>,   \* infrastructure
         << <<"c", "a", "p", "i", "t", "a", "l">>, 3 >>,   \* capital
         << <<"f", "i", "n", "a", "n", "c", "i", "n", "g">>, 3 >>,   \* financing
         << <<"p", "u", "b", "l", "i", "c", " ", "i", "n", "v", "e", "s", "t", "m", "e", "n", "t">>, 4 >>,   \* public investment
         << <<"p", "r", "i", "v", "a", "t", "e", " ", "i", "n", "v", "e", "s", "t", "m", "e", "n", "t">>, 4 >>,   \* private investment
         << <<"f", "u", "n", "d", "i", "n", "g">>, 2 >>    \* funding
       >> >>,
    \* Gender and rural advisory services
    << <<"G", "e", "n", "d", "e", "r", " ", "a", "n", "d", " ", "r", "u", "r", "a", "l", " ", "a", "d", "v", "i", "s", "o", "r", "y", " ", "s", "e", "r", "v", "i", "c", "e", "s">>,
       <<
         << <<"e", "x", "t", "e", "n", "s", "i", "o", "n">>, 3 >>,   \* extension
         << <<"a", "d", "v", "i", "s", "o", "r", "y", " ", "s", "e", "r", "v", "i", "c", "e", "s">>, 4 >>,   \* advisory services
         << <<"r", "u", "r", "a", "l", " ", "a", "d", "v", "i", "s", "o", "r", "y">>, 4 >>,   \* rural advisory
         << <<"f", "a", "r", "m", "e", "r", " ", "f", "i", "e", "l", "d", " ", "s", "c", "h", "o", "o", "l">>, 4 >>,   \* farmer field school
         << <<"f", "f", "s">>, 4 >>,   \* ffs
         << <<"c", "a", "p", "a", "c", "i", "t", "y", " ", "d", "e", "v", "e", "l", "o", "p", "m", "e", "n", "t">>, 4 >>,   \* capacity development
         << <<"t", "r", "a", "i", "n", "i", "n", "g">>, 2 >>,   \* training
         << <<"e", "d", "u", "c", "a", "t", "i", "o", "n">>, 2 >>,   \* education
         << <<"k", "n", "o", "w", "l", "e", "d", "g", "e", " ", "t", "r", "a", "n", "s", "f", "e", "r">>, 3 >>    \* knowledge transfer
       >> >>,
    \* Gender-sensitive social protection
    << <<"G", "e", "n", "d", "e", "r", "-", "s", "e", "n", "s", "i", "t", "i", "v", "e", " ", "s", "o", "c", "i", "a", "l", " ", "p", "r", "o", "t", "e", "c", "t", "i", "o", "n">>,
       <<
         << <<"s", "o", "c", "i", "a", "l", " ", "p", "r", "o", "t", "e", "c", "t", "i", "o", "n">>, 4 >>,   \* social protection
         << <<"c", "a", "s", "h", " ", "t", "r", "a", "n", "s", "f", "e", "r">>, 4 >>,   \* cash transfer
         << <<"s", "a", "f", "e", "t", "y", " ", "n", "e", "t">>, 4 >>,   \* safety net
         << <<"s", "o", "c", "i", "a", "l", " ", "a", "s", "s", "i", "s", "t", "a", "n", "c", "e">>, 4 >>,   \* social assistance
         << <<"i", "n", "s", "u", "r", "a", "n", "c", "e">>, 3 >>,   \* insurance
         << <<"p", "u", "b", "l", "i", "c", " ", "w", "o", "r", "k", "s">>, 3 >>,   \* public works
         << <<"w", "e", "l", "f", "a", "r", "e">>, 2 >>,   \* welfare
         << <<"b", "e", "n", "e", "f", "i", "t", "s">>, 2 >>    \* benefits
       >> >>,
    \* Gender-responsive policy making and budgeting
    << <<"G", "e", "n", "d", "e", "r", "-", "r", "e", "s", "p", "o", "n", "s", "i", "v", "e", " ", "p", "o", "l", "i", "c", "y", " ", "m", "a", "k", "i", "n", "g", " ", "a", "n", "d", " ", "b", "u", "d", "g", "e", "t", "i", "n", "g">>,
       <<
         << <<"p", "o", "l", "i", "c", "y">>, 2 >>,   \* policy
         << <<"p", "o", "l", "i", "c", "i", "e", "s">>, 2 >>,   \* policies
         << <<"p", "o", "l", "i", "c", "y", "-", "m", "a", "k", "i", "n", "g">>, 4 >>,   \* policy-making
         << <<"p", "o", "l", "i", "c", "y", " ", "m", "a", "k", "i", "n", "g">>, 4 >>,   \* policy making
         << <<"b", "u", "d", "g", "e", "t">>, 3 >>,   \* budget
         << <<"b", "u", "d", "g", "e", "t", "i", "n", "g">>, 3 >>,   \* budgeting
         << <<"g", "e", "n", "d", "e", "r", "-", "r", "e", "s", "p", "o", "n", "s", "i", "v", "e", " ", "b", "u", "d", "g", "e", "t">>, 5 >>,   \* gender-responsive budget
         << <<"g", "r", "b">>, 4 >>,   \* grb
         << <<"g", "o", "v", "e", "r", "n", "a", "n", "c", "e">>, 2 >>,   \* governance
         << <<"r", "e", "g", "u", "l", "a", "t", "i", "o", "n">>, 2 >>,   \* regulation
         << <<"l", "e", "g", "i", "s", "l", "a", "t", "i", "o", "n">>, 2 >>,   \* legislation
         << <<"l", "a", "w">>, 2 >>,   \* law
         << <<"l", "e", "g", "a", "l">>, 2 >>    \* legal
       >> >>,
    \* Gender statistics and sex-disaggregated data
    << <<"G", "e", "n", "d", "e", "r", " ", "s", "t", "a", "t", "i", "s", "t", "i", "c", "s", " ", "a", "n", "d", " ", "s", "e", "x", "-", "d", "i", "s", "a", "g", "g", "r", "e", "g", "a", "t", "e", "d", " ", "d", "a", "t", "a">>,
       <<
         << <<"s", "e", "x", "-", "d", "i", "s", "a", "g", "g", "r", "e", "g", "a", "t", "e", "d">>, 4 >>,   \* sex-disaggregated
         << <<"s", "e", "x", " ", "d", "i", "s", "a", "g", "g", "r", "e", "g", "a", "t", "e", "d">>, 4 >>,   \* sex disaggregated
         << <<"g", "e", "n", "d", "e", "r", " ", "s", "t", "a", "t", "i", "s", "t", "i", "c", "s">>, 4 >>,   \* gender statistics
         << <<"d", "i", "s", "a", "g", "g", "r", "e", "g", "a", "t", "e", "d", " ", "d", "a", "t", "a">>, 4 >>,   \* disaggregated data
         << <<"i", "n", "d", "i", "c", "a", "t", "o", "r">>, 3 >>,   \* indicator
         << <<"s", "u", "r", "v", "e", "y">>, 3 >>,   \* survey
         << <<"c", "e", "n", "s", "u", "s">>, 3 >>,   \* census
         << <<"d", "a", "t", "a", " ", "c", "o", "l", "l", "e", "c", "t", "i", "o", "n">>, 4 >>,   \* data collection
         << <<"g", "e", "n", "d", "e", "r", " ", "d", "a", "t", "a">>, 4 >>,   \* gender data
         << <<"s", "t", "a", "t", "i", "s", "t", "i", "c", "s">>, 2 >>,   \* statistics
         << <<"m", "e", "t", "r", "i", "c", "s">>, 2 >>    \* metrics
       >> >>,
    \* Gender and food security and nutrition
    << <<"G", "e", "n", "d", "e", "r", " ", "a", "n", "d", " ", "f", "o", "o", "d", " ", "s", "e", "c", "u", "r", "i", "t", "y", " ", "a", "n", "d", " ", "n", "u", "t", "r", "i", "t", "i", "o", "n">>,
       <<
         << <<"f", "o", "o", "d", " ", "s", "e", "c", "u", "r", "i", "t", "y">>, 4 >>,   \* food security
         << <<"n", "u", "t", "r", "i", "t", "i", "o", "n">>, 3 >>,   \* nutrition
         << <<"m", "a", "l", "n", "u", "t", "r", "i", "t", "i", "o", "n">>, 4 >>,   \* malnutrition
         << <<"d", "i", "e", "t">>, 2 >>,   \* diet
         << <<"f", "o", "o", "d", " ", "s", "y", "s", "t", "e", "m", "s">>, 3 >>,   \* food systems
         << <<"h", "o", "u", "s", "e", "h", "o", "l", "d", " ", "f", "o", "o", "d">>, 4 >>,   \* household food
         << <<"n", "u", "t", "r", "i", "t", "i", "o", "u", "s">>, 2 >>,   \* nutritious
         << <<"h", "u", "n", "g", "e", "r">>, 2 >>,   \* hunger
         << <<"s", "t", "u", "n", "t", "i", "n", "g">>, 3 >>,   \* stunting
         << <<"w", "a", "s", "t", "i", "n", "g">>, 3 >>    \* wasting
       >> >>,
    \* Gender and inclusive food systems and value chains
    << <<"G", "e", "n", "d", "e", "r", " ", "a", "n", "d", " ", "i", "n", "c", "l", "u", "s", "i", "v", "e", " ", "f", "o", "o", "d", " ", "s", "y", "s", "t", "e", "m", "s", " ", "a", "n", "d", " ", "v", "a", "l", "u", "e", " ", "c", "h", "a", "i", "n", "s">>,
       <<
         << <<"i", "n", "c", "l", "u", "s", "i", "v", "e">>, 2 >>,   \* inclusive
         << <<"v", "a", "l", "u", "e", " ", "c", "h", "a", "i", "n">>, 4 >>,   \* value chain
         << <<"m", "a", "r", "k", "e", "t", " ", "a", "c", "c", "e", "s", "s">>, 4 >>,   \* market access
         << <<"a", "g", "r", "i", "f", "o", "o", "d">>, 3 >>,   \* agrifood
         << <<"f", "o", "o", "d", " ", "s", "y", "s", "t", "e", "m">>, 3 >>,   \* food system
         << <<"p", "r", "o", "c", "e", "s", "s", "i", "n", "g">>, 3 >>,   \* processing
         << <<"m", "a", "r", "k", "e", "t", "i", "n", "g">>, 3 >>,   \* marketing
         << <<"i", "n", "c", "l", "u", "s", "i", "v", "e", " ", "b", "u", "s", "i", "n", "e", "s", "s">>, 4 >>,   \* inclusive business
         << <<"t", "r", "a", "d", "e">>, 2 >>,   \* trade
         << <<"s", "u", "p", "p", "l", "y", " ", "c", "h", "a", "i", "n">>, 3 >>,   \* supply chain
         << <<"d", "i", "s", "t", "r", "i", "b", "u", "t", "i", "o", "n">>, 2 >>    \* distribution
       >> >>,
    \* Gender analysis, gender mainstreaming and the project cycle
    << <<"G", "e", "n", "d", "e", "r", " ", "a", "n", "a", "l", "y", "s", "i", "s", ",", " ", "g", "e", "n", "d", "e", "r", " ", "m", "a", "i", "n", "s", "t", "r", "e", "a", "m", "i", "n", "g", " ", "a", "n", "d", " ", "t", "h", "e", " ", "p", "r", "o", "j", "e", "c", "t", " ", "c", "y", "c", "l", "e">>,
       <<
         << <<"g", "e", "n", "d", "e", "r", " ", "a", "n", "a", "l", "y", "s", "i", "s">>, 4 >>,   \* gender analysis
         << <<"g", "e", "n", "d", "e", "r", " ", "m", "a", "i", "n", "s", "t", "r", "e", "a", "m", "i", "n", "g">>, 4 >>,   \* gender mainstreaming
         << <<"m", "a", "i", "n", "s", "t", "r", "e", "a", "m", "i", "n", "g">>, 3 >>,   \* mainstreaming
         << <<"p", "r", "o", "j", "e", "c", "t", " ", "c", "y", "c", "l", "e">>, 4 >>,   \* project cycle
         << <<"l", "o", "g", "f", "r", "a", "m", "e">>, 3 >>,   \* logframe
         << <<"l", "o", "g", "i", "c", "a", "l", " ", "f", "r", "a", "m", "e", "w", "o", "r", "k">>, 4 >>,   \* logical framework
         << <<"d", "e", "s", "i", "g", "n", " ", "p", "h", "a", "s", "e">>, 4 >>,   \* design phase
         << <<"i", "m", "p", "l", "e", "m", "e", "n", "t", "a", "t", "i", "o", "n", " ", "p", "h", "a", "s", "e">>, 4 >>,   \* implementation phase
         << <<"m", "o", "n", "i", "t", "o", "r", "i", "n", "g", " ", "a", "n", "d", " ", "e", "v", "a", "l", "u", "a", "t", "i", "o", "n">>, 4 >>,   \* monitoring and evaluation
         << <<"m", "&", "e">>, 3 >>,   \* m&e
         << <<"a", "s", "s", "e", "s", "s", "m", "e", "n", "t">>, 2 >>    \* assessment
       >> >>,
    \* Gender equality and women's empowerment
    << <<"G", "e", "n", "d", "e", "r", " ", "e", "q", "u", "a", "l", "i", "t", "y", " ", "a", "n", "d", " ", "w", "o", "m", "e", "n", "'", "s", " ", "e", "m", "p", "o", "w", "e", "r", "m", "e", "n", "t">>,
       <<
         << <<"g", "e", "n", "d", "e", "r", " ", "e", "q", "u", "a", "l", "i", "t", "y">>, 3 >>,   \* gender equality
         << <<"w", "o", "m", "e", "n">>, 1 >>,   \* women
         << <<"g", "i", "r", "l", "s">>, 1 >>,   \* girls
         << <<"e", "m", "p", "o", "w", "e", "r">>, 2 >>,   \* empower
         << <<"e", "m", "p", "o", "w", "e", "r", "m", "e", "n", "t">>, 2 >>,   \* empowerment
         << <<"l", "e", "a", "d", "e", "r", "s", "h", "i", "p">>, 2 >>,   \* leadership
         << <<"e", "q", "u", "i", "t", "y">>, 2 >>,   \* equity
         << <<"i", "n", "c", "l", "u", "s", "i", "o", "n">>, 2 >>,   \* inclusion
         << <<"r", "i", "g", "h", "t", "s">>, 2 >>,   \* rights
         << <<"e", "q", "u", "a", "l">>, 1 >>,   \* equal
         << <<"f", "e", "m", "a", "l", "e">>, 1 >>    \* female
       >> >>
  >>

\* The stop words of the extractive summarizer.
stop ==
  { <<"a">>,
    <<"a", "n">>,
    <<"t", "h", "e">>,
    <<"a", "n", "d">>,
    <<"o", "r">>,
    <<"b", "u", "t">>,
    <<"i", "f">>,
    <<"w", "h", "i", "l", "e">>,
    <<"o", "f">>,
    <<"f", "o", "r">>,
    <<"o", "n">>,
    <<"i", "n">>,
    <<"a", "t">>,
    <<"t", "o">>,
    <<"f", "r", "o", "m">>,
    <<"b", "y">>,
    <<"w", "i", "t", "h">>,
    <<"a", "s">>,
    <<"i", "s">>,
    <<"a", "r", "e">>,
    <<"w", "a", "s">>,
    <<"w", "e", "r", "e">>,
    <<"b", "e">>,
    <<"b", "e", "e", "n">>,
    <<"b", "e", "i", "n", "g">>,
    <<"t", "h", "i", "s">>,
    <<"t", "h", "a", "t">>,
    <<"t", "h", "o", "s", "e">>,
    <<"t", "h", "e", "s", "e">>,
    <<"i", "t">>,
    <<"i", "t", "s">>,
    <<"t", "h", "e", "y">>,
    <<"t", "h", "e", "m">>,
    <<"t", "h", "e", "i", "r">>,
    <<"w", "e">>,
    <<"o", "u", "r">>,
    <<"y", "o", "u">>,
    <<"y", "o", "u", "r">>,
    <<"h", "e">>,
    <<"s", "h", "e">>,
    <<"h", "i", "s">>,
    <<"h", "e", "r">>,
    <<"n", "o", "t">>,
    <<"n", "o">>,
    <<"y", "e", "s">>,
    <<"d", "o">>,
    <<"d", "o", "e", "s">>,
    <<"d", "i", "d">> }

\* freq is a plain object: the word 'constructor' reads the constructor that
\* every object inherits, freq[w] is then a function or a string, and the
\* score of a sentence with that word is a string, not a number.
HitsPrototype(w) == w = <<"c", "o", "n", "s", "t", "r", "u", "c", "t", "o", "r">>

\* freq[w] || 0 : occurrences of w in the body, for counted words only (and
\* for a word that does not hit the prototype).
Freq(words, w) ==
  IF w \in stop \/ Len(w) <= 2 THEN 0
  ELSE Cardinality({ i \in DOMAIN words : words[i] = w })

RECURSIVE SumSeq(_)
SumSeq(ns) == IF ns = <<>> THEN 0 ELSE Head(ns) + SumSeq(Tail(ns))

SentenceScore(words, s) ==
  LET toks == matchWords(toLowerCase(s))
  IN  SumSeq([ k \in DOMAIN toks |-> Freq(words, toks[k]) ])

\* scored.sort((a, b) => b.score - a.score): the indexes idx by descending
\* score; Array.prototype.sort is stable, so equal scores keep their order.
RECURSIVE SortByScore(_, _)
SortByScore(idx, score) ==
  IF idx = {} THEN <<>>
  ELSE LET first == CHOOSE i \in idx :
                      \A j \in idx : score[i] > score[j]
                                     \/ (score[i] = score[j] /\ i <= j)
       IN  <<first>> \o SortByScore(idx \ {first}, score)

\* A summary that leaves the chosen sentences in the order of their scores.
TopSentences_ByScore(sentences, score, maxSentences) ==
  LET scored == SortByScore(DOMAIN sentences, score)
  IN  join([ k \in 1..maxSentences |-> sentences[scored[k]] ], <<" ">>)

\* The summary of a text of more than maxSentences sentences: the sentences
\* at the first maxSentences places of the sorted list, in text order.
TopSentences(sentences, score, maxSentences) ==
  LET scored == SortByScore(DOMAIN sentences, score)
      top == SortAscending({ scored[k] : k \in 1..maxSentences })
  IN  join([ k \in DOMAIN top |-> sentences[top[k]] ], <<" ">>)

SentenceScores(sentences, words) ==
  [ i \in DOMAIN sentences |-> SentenceScore(words, sentences[i]) ]

\* A summary that joins a short text by newlines, as the extractor joins its
\* parts.
SummaryOfSentences_JoinNewline(body, sentences, maxSentences) ==
  IF Len(sentences) <= maxSentences THEN join(sentences, <<"\n">>)
  ELSE CHOOSE r \in
         { TopSentences(sentences, score, maxSentences) :
             score \in { SentenceScores(sentences, words) :
                           words \in { matchWords(toLowerCase(body)) } } }
         : TRUE

SummaryOfSentences(body, sentences, maxSentences) ==
  IF Len(sentences) <= maxSentences THEN join(sentences, <<" ">>)
  ELSE CHOOSE r \in
         { TopSentences(sentences, score, maxSentences) :
             score \in { SentenceScores(sentences, words) :
                           words \in { matchWords(toLowerCase(body)) } } }
         : TRUE

SummaryOfBody(body, maxSentences) ==
  IF body = <<>> THEN <<>>
  ELSE CHOOSE r \in
         { SummaryOfSentences(body, sentences, maxSentences) :
             sentences \in { Sentences(body) } }
         : TRUE

\* (Each stage is bound once, by a singleton set, before the next uses it.)
\* The summary of a text whose scores are numbers; SummaryOutcomes has the
\* summaries of every text.
summarizeExtractive(text, maxSentences) ==
  CHOOSE r \in { SummaryOfBody(body, maxSentences) :
                   body \in { normalizeSpace(text) } } : TRUE

\* The score of every sentence is a number.
ScoresAreNumbers(sentences) ==
  \A i \in DOMAIN sentences :
    \A w \in { matchWords(toLowerCase(sentences[i]))[k] :
                  k \in DOMAIN matchWords(toLowerCase(sentences[i])) } :
      ~HitsPrototype(w)

\* The summaries of a text of more than maxSentences sentences when a score
\* is not a number: the comparator b.score - a.score then yields NaN, it is
\* not a consistent comparator and the order that scored.sort leaves is up
\* to the engine, so that any maxSentences sentences may come first.
AnyTopSentences(sentences, maxSentences) ==
  { join([ k \in DOMAIN top |-> sentences[top[k]] ], <<" ">>) :
      top \in { SortAscending(P) :
                  P \in { Q \in SUBSET DOMAIN sentences : Cardinality(Q) = maxSentences } } }

SummariesOfBody(text, body, sentences, maxSentences) ==
  IF body = <<>> \/ Len(sentences) <= maxSentences \/ ScoresAreNumbers(sentences)
  THEN { summarizeExtractive(text, maxSentences) }
  ELSE AnyTopSentences(sentences, maxSentences)

\* Every summary that summarizeExtractive may return for a text: the one
\* summary of a text whose scores are numbers, and else one for every order
\* that the sort may leave.
SummaryOutcomes(text, maxSentences) ==
  UNION { SummariesOfBody(text, body, Sentences(body), maxSentences) :
            body \in { normalizeSpace(text) } }

\* The label the scoring loop starts from and the floor falls back to.
DefaultCategory == <<"G", "e", "n", "d", "e", "r", " ", "e", "q", "u", "a", "l", "i", "t", "y", " ", "a", "n", "d", " ", "w", "o", "m", "e", "n", "'", "s", " ", "e", "m", "p", "o", "w", "e", "r", "m", "e", "n", "t">>

\* A score that counts the matched keywords without their weights.
AreaScore_Unweighted(text, pairs) ==
  SumSeq([ k \in DOMAIN pairs |-> IF includes(text, pairs[k][1]) THEN 1 ELSE 0 ])

\* The score of one area for a lower-cased text.
AreaScore(text, pairs) ==
  SumSeq([ k \in DOMAIN pairs |->
             IF includes(text, pairs[k][1])
             THEN pairs[k][2] + (IF includes(pairs[k][1], <<" ">>) THEN 1 ELSE 0)
             ELSE 0 ])

\* The score of every area, in declaration order.
AreaScores(text) ==
  [ n \in DOMAIN areas |-> AreaScore(text, areas[n][2]) ]

\* A loop that lets a later area take over on an equal score.
RECURSIVE BestArea_LastWins(_, _, _, _)
BestArea_LastWins(scores, n, best, bestScore) ==
  IF n > Len(areas) THEN << best, bestScore >>
  ELSE IF scores[n] >= bestScore
       THEN BestArea_LastWins(scores, n + 1, areas[n][1], scores[n])
       ELSE BestArea_LastWins(scores, n + 1, best, bestScore)

\* The loop over the areas from the n-th on, entered with the best label and
\* the best score so far; yields <<best, bestScore>> after the last area.
RECURSIVE BestArea(_, _, _, _)
BestArea(scores, n, best, bestScore) ==
  IF n > Len(areas) THEN << best, bestScore >>
  ELSE IF scores[n] > bestScore
       THEN BestArea(scores, n + 1, areas[n][1], scores[n])
       ELSE BestArea(scores, n + 1, best, bestScore)

\* A floor of 3 instead of 2.
FloorOrBest_HigherFloor(res) ==
  IF res[2] < 3 THEN DefaultCategory ELSE res[1]

\* A floor that falls back to the first area of the catalogue.
FloorOrBest_FirstArea(res) ==
  IF res[2] < 2 THEN areas[1][1] ELSE res[1]

\* The decision after the loop.
FloorOrBest(res) ==
  IF res[2] < 2 THEN DefaultCategory ELSE res[1]

\* <<best, bestScore>> when the loop of categorize has run over the areas.
LoopResult(title, summary) ==
  CHOOSE res \in
    { BestArea(scores, 1, DefaultCategory, 0) :
        scores \in { AreaScores(text) :
                       text \in { toLowerCase(title \o <<" ">> \o summary) } } }
    : TRUE

\* (Each stage is bound once, by a singleton set, before the next uses it.)
categorize(title, summary) ==
  CHOOSE c \in
    { FloorOrBest(res) :
        res \in { BestArea(scores, 1, DefaultCategory, 0) :
                    scores \in { AreaScores(text) :
                                   text \in { toLowerCase(title \o <<" ">> \o summary) } } } }
    : TRUE

----------------------------------------------------------------------------
(* src/app/api/summarize/route.ts: the remote adapter and the handler      *)

Null == [ null |-> TRUE ]

\* /^https?:\/\//i.test(s)
IsHttpUrl(s) ==
  \/ slice(toLowerCase(s), 0, 7) = <<"h", "t", "t", "p", ":", "/", "/">>
  \/ slice(toLowerCase(s), 0, 8) = <<"h", "t", "t", "p", "s", ":", "/", "/">>

\* What the remote completion service does with one request:
\*   "throw"      the fetch rejects (transport error)
\*   "notok"      a response with a non-success status
\*   "badbody"    resp.json() throws
\*   "badcontent" the message content is not JSON
\*   "nullcontent" the message content is the JSON value null
\*   "parsed"     the message content parses to an object; absent keys
\*                (and an absent message content, read as '{}') are empty
RemoteFails(remote) ==
  remote.kind \in {"throw", "notok", "badbody", "badcontent", "nullcontent"}

\* summarizeWithAgent without the credential check.
summarizeWithAgent_NoKeyCheck(url, title, content, apiKey, remote) ==
  IF RemoteFails(remote) THEN << Null, <<"remote">> >>
  ELSE LET summary == normalizeSpace(remote.summary)
           category == normalizeSpace(remote.category)
       IN  IF summary = <<>> THEN << Null, <<"remote">> >>
           ELSE << [ null |-> FALSE,
                     summary |-> summary,
                     category |-> IF category # <<>> THEN category
                                  ELSE categorize(title, summary) ],
                   <<"remote">> >>

\* Returns <<result, calls>>: the value the function resolves to and the
\* outbound requests it issued.
summarizeWithAgent(url, title, content, apiKey, remote) ==
  IF apiKey = <<>> THEN << Null, <<>> >>
  ELSE IF RemoteFails(remote) THEN << Null, <<"remote">> >>
  ELSE LET summary == normalizeSpace(remote.summary)
           category == normalizeSpace(remote.category)
       IN  IF summary = <<>> THEN << Null, <<"remote">> >>
           ELSE << [ null |-> FALSE,
                     summary |-> summary,
                     category |-> IF category # <<>> THEN category
                                  ELSE categorize(title, summary) ],
                   <<"remote">> >>

\* res.ok of the article response.
ResOk_AlwaysOk(article) == TRUE

ResOk(article) == article.ok

\* The title of a fetched page: <title>, else <h1>, else the url.
PageTitle(page, targetUrl) ==
  IF normalizeSpace(page.title) # <<>> THEN normalizeSpace(page.title)
  ELSE IF normalizeSpace(page.h1) # <<>> THEN normalizeSpace(page.h1)
  ELSE targetUrl

\* The response once the page is fetched: the heuristic result, replaced by
\* the remote result when the adapter returns one.
Classified(targetUrl, title, summary, category, ai) ==
  LET useAi == ~ai[1].null /\ ai[1].summary # <<>>
  IN  [ status |-> 200,
        title |-> title,
        url |-> targetUrl,
        summary |-> IF useAi THEN ai[1].summary ELSE summary,
        category |-> IF useAi
                     THEN (IF ai[1].category # <<>> THEN ai[1].category
                           ELSE category)
                     ELSE category,
        method |-> IF useAi THEN "agent" ELSE "heuristic",
        calls |-> <<"article">> \o ai[2] ]

\* A handler that consults the remote adapter whether asked to or not.
Summarized_AlwaysAgent(targetUrl, agent, title, content, summary, remote, apiKey) ==
  CHOOSE r \in
    { Classified(targetUrl, title, summary, category, ai) :
        category \in { categorize(title, IF summary # <<>> THEN summary ELSE content) },
        ai \in { summarizeWithAgent(targetUrl, title, content, apiKey, remote) } }
    : TRUE

\* The heuristic category, and the result of the remote adapter when the
\* request asks for it.
Summarized(targetUrl, agent, title, content, summary, remote, apiKey) ==
  CHOOSE r \in
    { Classified(targetUrl, title, summary, category, ai) :
        category \in { categorize(title, IF summary # <<>> THEN summary ELSE content) },
        ai \in { IF agent
                 THEN summarizeWithAgent(targetUrl, title, content, apiKey, remote)
                 ELSE << Null, <<>> >> } }
    : TRUE

Extracted(targetUrl, agent, title, content, remote, apiKey) ==
  CHOOSE r \in
    { Summarized(targetUrl, agent, title, content, summary, remote, apiKey) :
        summary \in { summarizeExtractive(content, 5) } }
    : TRUE

Fetched(targetUrl, agent, page, remote, apiKey) ==
  CHOOSE r \in
    { Extracted(targetUrl, agent, title, content, remote, apiKey) :
        title \in { PageTitle(page, targetUrl) },
        content \in { extractMainText(page) } }
    : TRUE

\* The response of the handler to one request, given what the article
\* server and the remote service answer.
\*   body:    [kind: "unparsable" | "null" | "object", url, agent]
\*   article: [kind: "throw"] | [kind: "response", ok, status, page]
\*   remote:  see RemoteFails
PostResponse(body, article, remote, apiKey) ==
  LET obj == IF body.kind = "object" THEN body ELSE [ url |-> <<>>, agent |-> FALSE ]
      targetUrl == trim(obj.url)
  IN  IF body.kind = "null"
      THEN [ status |-> 500, error |-> "Internal server error", calls |-> <<>> ]
      ELSE IF targetUrl = <<>> \/ ~IsHttpUrl(targetUrl)
      THEN [ status |-> 400, error |-> "Invalid url", calls |-> <<>> ]
      ELSE IF article.kind = "throw"
      THEN [ status |-> 500, error |-> "Internal server error",
             calls |-> <<"article">> ]
      ELSE IF ~ResOk(article)
      THEN [ status |-> 502, error |-> "Fetch failed", upstream |-> article.status,
             calls |-> <<"article">> ]
      ELSE Fetched(targetUrl, obj.agent, article.page, remote, apiKey)

----------------------------------------------------------------------------
(* Requests to POST /api/summarize and what the network answers            *)

Urls == { <<>>, <<"f", "t", "p", ":", "/", "/", "a">>, <<"h", "t", "t", "p", ":", "/", "/", "a">>, <<" ", "H", "T", "T", "P", "S", ":", "/", "/", "b", " ">> }

RequestBodies ==
  { [ kind |-> "unparsable" ], [ kind |-> "null" ] }
  \cup [ kind : {"object"}, url : Urls, agent : BOOLEAN ]

\* A page with six sentences in its article, a page without any text, and a
\* page whose title comes from its h1 and whose text from loose paragraphs.
Pages ==
  { [ title |-> <<"F", "i", "s", "h", " ", " ", "n", "e", "w", "s">>, h1 |-> <<"F", "i", "s", "h">>,
      candidates |-> << << <<"W", "o", "m", "e", "n", " ", "f", "i", "s", "h", ".", " ", "F", "i", "s", "h", "e", "r", "i", "e", "s", " ", "g", "r", "o", "w", "!">>, <<" ">>, <<"F", "i", "s", "h", " ", "s", "e", "l", "l", ".", " ", "A", " ", "b", "?">> >>,
                        << <<"F", "i", "s", "h", "e", "r", "i", "e", "s", " ", "g", "r", "o", "w", " ", "d", "a", "i", "l", "y", ".", " ", "W", "o", "m", "e", "n", " ", "s", "e", "l", "l", " ", "f", "i", "s", "h", ".">>,
                           <<"F", "i", "s", "h", "\n", "f", "e", "e", "d", " ", "w", "o", "m", "e", "n", ".", " ", "N", "o", ".", " ", "Y", "e", "s", ".", " ", "C", "r", "o", "p", " ", "f", "a", "i", "l", "s", ".">> >> >>,
      paragraphs |-> << <<"W", "o", "m", "e", "n", " ", "f", "i", "s", "h", ".">> >> ],
    [ title |-> <<>>, h1 |-> <<>>, candidates |-> <<>>, paragraphs |-> <<>> ],
    [ title |-> <<" ">>, h1 |-> <<"L", "a", "n", "d">>, candidates |-> << <<>> >>,
      paragraphs |-> << <<"L", "a", "n", "d", " ", "t", "e", "n", "u", "r", "e", " ", " ", "a", "n", "d">>, <<"w", "a", "t", "e", "r", ".">> >> ] }

\* The page served with a non-success status.
ErrorPage ==
  [ title |-> <<"N", "o", "t", " ", "f", "o", "u", "n", "d">>, h1 |-> <<>>, candidates |-> <<>>,
    paragraphs |-> << <<"N", "o", " ", "p", "a", "g", "e", ".">> >> ]

ArticleOutcomes ==
  { [ kind |-> "throw" ] }
  \cup [ kind : {"response"}, ok : {FALSE}, status : {404, 500}, page : {ErrorPage} ]
  \cup [ kind : {"response"}, ok : {TRUE}, status : {200}, page : Pages ]

RemoteOutcomes ==
  [ kind : {"throw", "notok", "badbody", "badcontent", "nullcontent"} ]
  \cup [ kind : {"parsed"},
         summary : { <<>>, <<" ", " ">>, <<" ", "A", " ", " ", "c", "r", "o", "p", ".", " ">> },
         category : { <<>>, <<"L", "a", "n", "d">> } ]

ApiKeys == { <<>>, <<"s", "k">> }

NoFiles == <<>>

NoRequest == [ route |-> "none" ]

\* The dashboard page is not open.
NoPage == [ mounted |-> FALSE ]

\* A request to POST /api/summarize is being received.
InitSummarize ==
  /\ env \in [ OPENAI_API_KEY : ApiKeys, JSON_PATH : { <<>> } ]
  /\ files = NoFiles
  /\ pending \in [ route : {"summarize"}, body : RequestBodies,
                    article : ArticleOutcomes, remote : RemoteOutcomes ]
  /\ last = NoRequest
  /\ dashboard = NoPage

\* The handler of POST /api/summarize, from the request to the response.
POST ==
  /\ pending.route = "summarize"
  /\ last' = [ route |-> "summarize",
               body |-> pending.body,
               article |-> pending.article,
               remote |-> pending.remote,
               resp |-> PostResponse(pending.body, pending.article,
                                     pending.remote, env.OPENAI_API_KEY) ]
  /\ pending' = NoRequest
  /\ UNCHANGED << env, files, dashboard >>

SpecSummarize == InitSummarize /\ [][POST]_vars

----------------------------------------------------------------------------
(* Claims about POST /api/summarize                                        *)

\* The request passed validation: the body is an object with an http(s) url.
ValidRequest ==
  /\ last.route = "summarize"
  /\ last.body.kind = "object"
  /\ IsHttpUrl(trim(last.body.url))

\* The request passed validation and the article was fetched.
ArticleFetched ==
  /\ ValidRequest
  /\ last.article.kind = "response"
  /\ last.article.ok

\* The remote classifier was requested, a credential is configured and the
\* remote call returned a parsable response with a non-empty summary.
RemoteAnswered ==
  /\ last.body.agent
  /\ env.OPENAI_API_KEY # <<>>
  /\ last.remote.kind = "parsed"
  /\ normalizeSpace(last.remote.summary) # <<>>

HeuristicSummary == summarizeExtractive(extractMainText(last.article.page), 5)

HeuristicCategory ==
  categorize(PageTitle(last.article.page, trim(last.body.url)),
             IF HeuristicSummary # <<>> THEN HeuristicSummary
             ELSE extractMainText(last.article.page))

\* C1: once the article is fetched, the response is a success; it has method
\* 'agent' and the remote summary exactly when the remote classifier was
\* requested, a credential is configured and the remote call returned a
\* parsable response with a non-empty summary; in every other case it has
\* method 'heuristic' with the heuristic summary and the heuristic category.
C1_RemoteFallback ==
  ArticleFetched =>
    /\ last.resp.status = 200
    /\ (last.resp.method = "agent") <=> RemoteAnswered
    /\ RemoteAnswered => last.resp.summary = normalizeSpace(last.remote.summary)
    /\ ~RemoteAnswered =>
         /\ last.resp.method = "heuristic"
         /\ last.resp.summary = HeuristicSummary
         /\ last.resp.category = HeuristicCategory

\* The remote classifier was requested with a credential, the remote call
\* failed, and the request was answered from the heuristic path.
C1_Witness ==
  /\ ArticleFetched
  /\ last.body.agent
  /\ env.OPENAI_API_KEY # <<>>
  /\ last.remote.kind = "throw"
  /\ last.resp.status = 200
  /\ last.resp.method = "heuristic"
  /\ last.resp.summary # <<>>

\* The article fetch failed: transport error or non-success status.
ArticleFetchFailed ==
  /\ ValidRequest
  /\ \/ last.article.kind = "throw"
     \/ ~last.article.ok

\* C2 as stated: a failure to fetch the target article is not answered with
\* an error response.
C2_FetchFailureNonFatal ==
  ArticleFetchFailed => last.resp.status < 400

\* C2 as amended: a failure to fetch the target article is answered with an
\* error response, 502 with the upstream status for a non-success status and
\* 500 for a transport error; the response carries no summary, category or
\* method and the remote classifier is not called.
C2_FetchFailureIsError ==
  ArticleFetchFailed =>
    /\ last.article.kind = "throw" => last.resp.status = 500
    /\ last.article.kind = "response" =>
         /\ last.resp.status = 502
         /\ last.resp.upstream = last.article.status
    /\ DOMAIN last.resp \cap {"summary", "category", "method"} = {}
    /\ last.resp.calls = <<"article">>

\* The article server answered 404 to a valid request for remote
\* classification and the request was answered 502.
C2_Witness ==
  /\ ArticleFetchFailed
  /\ last.article.kind = "response"
  /\ last.article.status = 404
  /\ last.body.agent
  /\ last.resp.status = 502

----------------------------------------------------------------------------
(* Datasets and the two query handlers:                                    *)
(*   GET /api/aggregations  src/components/ui/chart.tsx (lines 29-211)     *)
(*   GET /api/items         src/app/api/items/route.ts                     *)
(* A query parameter is a string; an absent parameter is the empty string  *)
(* (every parameter is read as get(name) || default).  A row is a record   *)
(* of strings; an absent field is the empty string (every field is read    *)
(* as r.field || ''), and a numeric year or month is its decimal string.   *)

\* A JavaScript number as parseInt yields it: NaN or an integer.
NaN == [ nan |-> TRUE, val |-> 0 ]

Num(n) == [ nan |-> FALSE, val |-> n ]

DigitValue(c) == Code[c] - Digit0

\* The value of a string of decimal digits.
RECURSIVE DigitsValue(_, _)
DigitsValue(ds, n) ==
  IF n = 0 THEN 0 ELSE 10 * DigitsValue(ds, n - 1) + DigitValue(ds[n])

\* The longest prefix of s made of decimal digits.
DigitPrefix(s) ==
  IF \A i \in DOMAIN s : IsDigit(s[i]) THEN s
  ELSE SubSeq(s, 1, (CHOOSE i \in DOMAIN s :
                       ~IsDigit(s[i]) /\ \A j \in 1..(i - 1) : IsDigit(s[j])) - 1)

\* parseInt(s, 10): leading white space, an optional sign, then digits;
\* whatever follows the digits is ignored; NaN when there is no digit.
ParseDigits(t, sign) ==
  IF DigitPrefix(t) = <<>> THEN NaN
  ELSE Num(sign * DigitsValue(DigitPrefix(t), Len(DigitPrefix(t))))

ParseSigned(t) ==
  IF t # <<>> /\ t[1] = "-" THEN ParseDigits(Tail(t), -1)
  ELSE IF t # <<>> /\ t[1] = "+" THEN ParseDigits(Tail(t), 1)
  ELSE ParseDigits(t, 1)

parseInt(s) ==
  CHOOSE r \in { ParseSigned(t) : t \in { trimStart(s) } } : TRUE

\* Math.max(a, b) and Math.min(a, b) for an integer a: NaN when b is NaN.
MathMax(a, b) == IF b.nan THEN NaN ELSE Num(IF b.val > a THEN b.val ELSE a)

MathMin(a, b) == IF b.nan THEN NaN ELSE Num(IF b.val < a THEN b.val ELSE a)

\* Number.prototype.toString for a natural number.
RECURSIVE NatToString(_)
NatToString(n) ==
  IF n < 10 THEN << Alphabet[Digit0 + n] >>
  ELSE Append(NatToString(n \div 10), Alphabet[Digit0 + (n % 10)])

\* String.prototype.padStart(width, '0')
padStart(s, width) ==
  [ i \in 1..(IF Len(s) < width THEN width - Len(s) ELSE 0) |-> "0" ] \o s

\* s.replace('-', ''): the first dash removed.
removeFirstDash(s) ==
  IF IndexOfChar(s, "-") = 0 THEN s
  ELSE SubSeq(s, 1, IndexOfChar(s, "-") - 1)
       \o SubSeq(s, IndexOfChar(s, "-") + 1, Len(s))

\* s.replace(/-/g, ''): every dash removed.
removeDashes(s) == SelectSeq(s, LAMBDA c : c # "-")

Unknown == <<"U", "n", "k", "n", "o", "w", "n">>

\* const [y, m] = di.split('-'): the first two pieces (m is empty when
\* there is no dash, which reads like undefined in `y && m`).
SplitYm(di) ==
  LET d == IndexOfChar(di, "-")
      rest == SubSeq(di, d + 1, Len(di))
      e == IndexOfChar(rest, "-")
  IN  IF d = 0 THEN << di, <<>> >>
      ELSE << SubSeq(di, 1, d - 1),
              IF e = 0 THEN rest ELSE SubSeq(rest, 1, e - 1) >>

IsDigits(s) == s # <<>> /\ \A i \in DOMAIN s : IsDigit(s[i])

\* toYmLabel of the aggregations handler.
YearMonthOfFields(y, m) ==
  IF IsDigits(y) /\ IsDigits(m)
  THEN padStart(NatToString(DigitsValue(y, Len(y))), 4) \o <<"-">>
       \o padStart(NatToString(DigitsValue(m, Len(m))), 2)
  ELSE Unknown

\* A derivation that prefers the year and month fields to date_iso.
YmOfPieces_FieldsFirst(ym, r) ==
  IF YearMonthOfFields(trim(r.year), trim(r.month)) # Unknown
  THEN YearMonthOfFields(trim(r.year), trim(r.month))
  ELSE IF ym[1] # <<>> /\ ym[2] # <<>> THEN ym[1] \o <<"-">> \o ym[2]
  ELSE Unknown

YmOfPieces(ym, r) ==
  IF ym[1] # <<>> /\ ym[2] # <<>> THEN ym[1] \o <<"-">> \o ym[2]
  ELSE YearMonthOfFields(trim(r.year), trim(r.month))

toYmLabel(r) ==
  CHOOSE l \in { YmOfPieces(ym, r) : ym \in { SplitYm(trim(r.date_iso)) } } : TRUE

\* The label the items handler derives inside its withinYmRange.
ItemsYmLabel(dateIso) ==
  IF slice(dateIso, 0, 7) # <<>> THEN slice(dateIso, 0, 7) ELSE Unknown

\* withinYmRange (both handlers), for a label and the trimmed bounds.
withinYmRange(lbl, fStart, fEnd) ==
  IF fStart = <<>> /\ fEnd = <<>> THEN TRUE
  ELSE IF lbl = Unknown THEN FALSE
  ELSE IF fStart # <<>> /\ StrLess(removeFirstDash(lbl), removeFirstDash(fStart))
  THEN FALSE
  ELSE IF fEnd # <<>> /\ StrLess(removeFirstDash(fEnd), removeFirstDash(lbl))
  THEN FALSE
  ELSE TRUE

\* The section and category filters after trimming, lower-casing and the
\* normalization of 'all'.
\* A filter value without the normalization of 'all'.
FilterValue_KeepAll(param) == toLowerCase(trim(param))

FilterValue(param) ==
  IF toLowerCase(trim(param)) = <<"a", "l", "l">> THEN <<>> ELSE toLowerCase(trim(param))

\* The filters of a query: [fSection, fCategory, fQ, fStart, fEnd].
Filters(query) ==
  [ fSection |-> FilterValue(query.section),
    fCategory |-> FilterValue(query.category),
    fQ |-> toLowerCase(trim(query.q)),
    fStart |-> trim(query.startYm),
    fEnd |-> trim(query.endYm) ]

SectionPasses(r, f) ==
  f.fSection = <<>> \/ toLowerCase(trim(r.section)) = f.fSection

CategoryPasses(r, f) ==
  f.fCategory = <<>> \/ toLowerCase(trim(r.category)) = f.fCategory

\* The predicate of rows.filter in the aggregations handler.
AggKeeps(r, f) ==
  /\ SectionPasses(r, f)
  /\ CategoryPasses(r, f)
  /\ f.fQ = <<>> \/ includes(toLowerCase(r.title \o <<" ">> \o r.summary), f.fQ)
  /\ withinYmRange(toYmLabel(r), f.fStart, f.fEnd)

\* The predicate of rows.filter in the items handler.
ItemsKeeps(r, f) ==
  /\ SectionPasses(r, f)
  /\ CategoryPasses(r, f)
  /\ f.fQ = <<>> \/ includes(toLowerCase(r.title), f.fQ)
  /\ withinYmRange(ItemsYmLabel(r.date_iso), f.fStart, f.fEnd)

\* The default datasets, in the order both handlers read them.
defaultPublicPaths ==
  << <<"p", "u", "b", "l", "i", "c", "/", "n", "e", "w", "s", ".", "j", "s", "o", "n">>, <<"p", "u", "b", "l", "i", "c", "/", "i", "n", "s", "i", "g", "h", "t", "s", ".", "j", "s", "o", "n">>,
     <<"p", "u", "b", "l", "i", "c", "/", "s", "u", "c", "c", "e", "s", "s", "-", "s", "t", "o", "r", "i", "e", "s", ".", "j", "s", "o", "n">>, <<"p", "u", "b", "l", "i", "c", "/", "e", "-", "l", "e", "a", "r", "n", "i", "n", "g", ".", "j", "s", "o", "n">>,
     <<"p", "u", "b", "l", "i", "c", "/", "p", "u", "b", "l", "i", "c", "a", "t", "i", "o", "n", "s", ".", "j", "s", "o", "n">>, <<"p", "u", "b", "l", "i", "c", "/", "o", "u", "t", "p", "u", "t", "/", "n", "e", "w", "s", ".", "j", "s", "o", "n">> >>

\* What is found at a location (files[loc]):
\*   "missing"     no such file, or the fetch of the URL rejects
\*   "notok"       the URL answers with a non-success status
\*   "unparsable"  the content is not JSON
\*   "null"        the content is the JSON value null
\*   "noitems"     a JSON object whose items is absent or not an array
\*   "doc"         a JSON object with an items array
\* A location that is not in files holds nothing.
Found(fs, loc) ==
  IF loc \in DOMAIN fs THEN fs[loc] ELSE [ kind |-> "missing" ]

\* The body of tryRead once the content is at hand.
ParseDataset(found) ==
  IF found.kind \in {"missing", "notok", "unparsable", "null"} THEN Null
  ELSE IF found.kind = "noitems" THEN [ null |-> FALSE, rows |-> <<>> ]
  ELSE [ null |-> FALSE, rows |-> found.items ]

\* tryRead of the items handler: a URL is fetched, a path is read.
ItemsTryRead(fs, pathStr) == ParseDataset(Found(fs, pathStr))

\* tryRead of the aggregations handler: the location is always read as a
\* file, and no file is named by a URL.
AggTryRead(fs, pathStr) ==
  IF IsHttpUrl(pathStr) THEN Null ELSE ParseDataset(Found(fs, pathStr))

\* A selection that reads the default datasets after an override.
SourcesOf_DefaultsToo(csvParam, envJson) ==
  IF csvParam # <<>> THEN << csvParam >> \o defaultPublicPaths
  ELSE IF envJson # <<>> THEN << envJson >> \o defaultPublicPaths
  ELSE defaultPublicPaths

\* The locations a request consults, in order.
SourcesOf(csvParam, envJson) ==
  IF csvParam # <<>> THEN << csvParam >>
  ELSE IF envJson # <<>> THEN << envJson >>
  ELSE defaultPublicPaths

\* A merge that gives up at the first source that cannot be read.
RECURSIVE ConcatLoaded_StopAtFailure(_, _)
ConcatLoaded_StopAtFailure(reads, n) ==
  IF n > Len(reads) \/ reads[n].null THEN <<>>
  ELSE reads[n].rows \o ConcatLoaded_StopAtFailure(reads, n + 1)

\* rows = rows.concat(arr) for every source read successfully, from the
\* n-th source on.
RECURSIVE ConcatLoaded(_, _)
ConcatLoaded(reads, n) ==
  IF n > Len(reads) THEN <<>>
  ELSE (IF reads[n].null THEN <<>> ELSE reads[n].rows) \o ConcatLoaded(reads, n + 1)

ItemsMerge(fs, csvParam, envJson) ==
  LET sources == SourcesOf(csvParam, envJson)
  IN  [ consulted |-> sources,
        rows |-> ConcatLoaded([ k \in DOMAIN sources |-> ItemsTryRead(fs, sources[k]) ], 1) ]

AggMerge(fs, csvParam, envJson) ==
  LET sources == SourcesOf(csvParam, envJson)
      reads == [ k \in DOMAIN sources |-> AggTryRead(fs, sources[k]) ]
  IN  [ consulted |-> sources,
        usedPaths |-> SelectSeq(sources, LAMBDA l : ~AggTryRead(fs, l).null),
        rows |-> ConcatLoaded(reads, 1) ]

\* The values of a sequence in the order of their first occurrence: the keys
\* of a Map filled in sequence order, or Array.from(new Set(seq)).
DistinctInOrder(seq) ==
  LET firsts == SortAscending({ i \in DOMAIN seq : \A j \in 1..(i - 1) : seq[j] # seq[i] })
  IN  [ k \in DOMAIN firsts |-> seq[firsts[k]] ]

CountOf(seq, v) == Cardinality({ i \in DOMAIN seq : seq[i] = v })

\* The default Array.prototype.sort of a set of distinct strings.
RECURSIVE SortStrings(_)
SortStrings(S) ==
  IF S = {} THEN <<>>
  ELSE LET m == CHOOSE x \in S : \A y \in S : x = y \/ StrLess(x, y)
       IN  <<m>> \o SortStrings(S \ {m})

\* allSections and allCategories: the sorted distinct non-blank values.
FacetOf(values) ==
  SortStrings({ trim(values[i]) : i \in DOMAIN values } \ { <<>> })

CategoryBucket(r) ==
  IF trim(r.category) = <<>> THEN <<"U", "n", "c", "a", "t", "e", "g", "o", "r", "i", "z", "e", "d">> ELSE trim(r.category)

SectionBucket(r) ==
  IF trim(r.section) = <<>> THEN <<"u", "n", "k", "n", "o", "w", "n">> ELSE trim(r.section)

\* The entries in the order the map was filled, not sorted.
CountsDescending_InsertionOrder(buckets) ==
  LET keys == DistinctInOrder(buckets)
  IN  [ k \in DOMAIN keys |->
          [ label |-> keys[k], count |-> CountOf(buckets, keys[k]) ] ]

\* Array.from(map.entries()).sort((a, b) => b[1] - a[1]) as {label, count}.
CountsDescending(buckets) ==
  LET keys == DistinctInOrder(buckets)
      order == SortByScore(DOMAIN keys, [ k \in DOMAIN keys |-> CountOf(buckets, keys[k]) ])
  IN  [ k \in DOMAIN order |->
          [ label |-> keys[order[k]], count |-> CountOf(buckets, keys[order[k]]) ] ]

\* The sort key of a label in sortYmLabels.  (Every label of the modelled
\* datasets is 'Unknown' or parses to a number.)
YmKey(l) == IF l = Unknown THEN 0 ELSE parseInt(removeFirstDash(l)).val

\* A sort of the distinct labels as strings.
sortYmLabels_AsStrings(labels) ==
  SortStrings({ labels[i] : i \in DOMAIN labels })

\* sortYmLabels: the distinct labels by ascending key.
sortYmLabels(labels) ==
  LET keys == DistinctInOrder(labels)
      order == SortByScore(DOMAIN keys, [ k \in DOMAIN keys |-> 0 - YmKey(keys[k]) ])
  IN  [ k \in DOMAIN order |-> keys[order[k]] ]

\* series is a plain object: an assignment to the key '__proto__' sets the
\* prototype of the object and adds no property, so that the serialized
\* object has the other keys only.
OwnKeys(keys) == keys \ { <<"_", "_", "p", "r", "o", "t", "o", "_", "_">> }

\* A response whose facets are those of the filtered rows.
Aggregated_FilteredFacets(usedPaths, rows, filtered, ymList, cats, secs) ==
  LET ymLabels == sortYmLabels(ymList)
      sectionKeys == SortStrings({ secs[i] : i \in DOMAIN secs })
  IN  [ status |-> 200,
        csv_path |-> join(usedPaths, <<",", " ">>),
        total |-> Len(filtered),
        by_category |-> CountsDescending(cats),
        by_section |-> CountsDescending(secs),
        by_year_month |->
          [ labels |-> ymLabels,
            counts |-> [ k \in DOMAIN ymLabels |-> CountOf(ymList, ymLabels[k]) ] ],
        monthly_by_section |->
          [ labels |-> ymLabels,
            series |-> [ sec \in OwnKeys({ sectionKeys[i] : i \in DOMAIN sectionKeys }) |->
                         [ k \in DOMAIN ymLabels |->
                             Cardinality({ i \in DOMAIN filtered :
                                             secs[i] = sec /\ ymList[i] = ymLabels[k] }) ] ] ],
        facets |->
          [ sections |-> FacetOf([ i \in DOMAIN filtered |-> filtered[i].section ]),
            categories |-> FacetOf([ i \in DOMAIN filtered |-> filtered[i].category ]) ] ]

\* The aggregation of the filtered rows, given their labels and buckets.
Aggregated(usedPaths, rows, filtered, ymList, cats, secs) ==
  LET ymLabels == sortYmLabels(ymList)
      sectionKeys == SortStrings({ secs[i] : i \in DOMAIN secs })
  IN  [ status |-> 200,
        csv_path |-> join(usedPaths, <<",", " ">>),
        total |-> Len(filtered),
        by_category |-> CountsDescending(cats),
        by_section |-> CountsDescending(secs),
        by_year_month |->
          [ labels |-> ymLabels,
            counts |-> [ k \in DOMAIN ymLabels |-> CountOf(ymList, ymLabels[k]) ] ],
        monthly_by_section |->
          [ labels |-> ymLabels,
            series |-> [ sec \in OwnKeys({ sectionKeys[i] : i \in DOMAIN sectionKeys }) |->
                         [ k \in DOMAIN ymLabels |->
                             Cardinality({ i \in DOMAIN filtered :
                                             secs[i] = sec /\ ymList[i] = ymLabels[k] }) ] ] ],
        facets |->
          [ sections |-> FacetOf([ i \in DOMAIN rows |-> rows[i].section ]),
            categories |-> FacetOf([ i \in DOMAIN rows |-> rows[i].category ]) ] ]

AggregateFiltered(usedPaths, rows, filtered) ==
  CHOOSE r \in
    { Aggregated(usedPaths, rows, filtered, ymList, cats, secs) :
        ymList \in { [ i \in DOMAIN filtered |-> toYmLabel(filtered[i]) ] },
        cats \in { [ i \in DOMAIN filtered |-> CategoryBucket(filtered[i]) ] },
        secs \in { [ i \in DOMAIN filtered |-> SectionBucket(filtered[i]) ] } }
    : TRUE

\* The response to an empty corpus.
EmptyAggregation(usedPaths) ==
  [ status |-> 200,
    csv_path |-> join(usedPaths, <<",", " ">>),
    total |-> 0,
    by_category |-> <<>>,
    by_section |-> <<>>,
    by_year_month |-> [ labels |-> <<>>, counts |-> <<>> ],
    monthly_by_section |-> [ labels |-> <<>>, series |-> <<>> ],
    facets |-> [ sections |-> <<>>, categories |-> <<>> ] ]

\* What the aggregations handler computes for a query: the merge, the
\* filtered rows and the response.
AggHandled(query, merged, filtered) ==
  [ route |-> "aggregations",
    query |-> query,
    consulted |-> merged.consulted,
    rows |-> merged.rows,
    filtered |-> filtered,
    resp |-> IF merged.rows = <<>> THEN EmptyAggregation(merged.usedPaths)
             ELSE AggregateFiltered(merged.usedPaths, merged.rows, filtered) ]

AggFiltered(query, merged, f) ==
  CHOOSE h \in { AggHandled(query, merged, filtered) :
                   filtered \in { SelectSeq(merged.rows, LAMBDA r : AggKeeps(r, f)) } }
    : TRUE

AggregationsGET(query, envJson, fs) ==
  CHOOSE h \in { AggFiltered(query, merged, f) :
                   merged \in { AggMerge(fs, query.csv, envJson) },
                   f \in { Filters(query) } } : TRUE

\* The characters of the modelled titles in the order of the locale
\* collation that localeCompare applies: white space, punctuation, digits,
\* letters.
CollationOrder ==
  << "\n", " ", "_", "-", ",", ":", "!", "?", ".", "'", "/", "&",
     "0", "1", "2", "3", "4", "5", "6", "7", "8", "9",
     "a", "b", "c", "d", "e", "f", "g", "h", "i", "j", "k", "l", "m",
     "n", "o", "p", "q", "r", "s", "t", "u", "v", "w", "x", "y", "z" >>

CollationRank ==
  [ c \in { CollationOrder[i] : i \in DOMAIN CollationOrder } |->
      CHOOSE i \in DOMAIN CollationOrder : CollationOrder[i] = c ]

\* a.localeCompare(b) < 0 for lower-cased strings.
LocaleLess(a, b) ==
  LET n == IF Len(a) < Len(b) THEN Len(a) ELSE Len(b)
  IN  IF \E i \in 1..n : a[i] # b[i]
      THEN LET d == CHOOSE i \in 1..n :
                      a[i] # b[i] /\ \A j \in 1..(i - 1) : a[j] = b[j]
           IN  CollationRank[a[d]] < CollationRank[b[d]]
      ELSE Len(a) < Len(b)

\* The date key of the comparator: parseInt of date_iso without its dashes,
\* 0 for no date.  (Every date of the modelled datasets parses.)
DateKey(r) ==
  IF removeDashes(r.date_iso) = <<>> THEN 0
  ELSE parseInt(removeDashes(r.date_iso)).val

\* A comparator that puts the older record first.
ItemBefore_OldestFirst(a, b) ==
  IF DateKey(a) # DateKey(b) THEN DateKey(a) - DateKey(b) < 0
  ELSE LocaleLess(toLowerCase(a.title), toLowerCase(b.title))

\* The comparator of the items handler returns a negative number.
ItemBefore(a, b) ==
  IF DateKey(a) # DateKey(b) THEN DateKey(b) - DateKey(a) < 0
  ELSE LocaleLess(toLowerCase(a.title), toLowerCase(b.title))

\* filtered.sort(comparator): the indexes idx of rows in sorted order; the
\* sort is stable.
RECURSIVE SortItems(_, _)
SortItems(rows, idx) ==
  IF idx = {} THEN <<>>
  ELSE LET first == CHOOSE i \in idx :
                      \A j \in idx :
                        \/ j = i
                        \/ ItemBefore(rows[i], rows[j])
                        \/ (~ItemBefore(rows[j], rows[i]) /\ i < j)
       IN  <<first>> \o SortItems(rows, idx \ {first})

\* The marker appended to a cut summary, as the source spells it.
EllipsisMarker == << "U+00E2", "U+20AC", "U+00A6" >>

ShortSummaryLimit == 240

makeShortSummary(s) ==
  IF trim(s) = <<>> THEN <<>>
  ELSE IF Len(trim(s)) <= ShortSummaryLimit THEN trim(s)
  ELSE trimEnd(slice(trim(s), 0, ShortSummaryLimit - 1)) \o EllipsisMarker

compact(r) ==
  [ section |-> r.section,
    category |-> r.category,
    title |-> r.title,
    date |-> r.date,
    url |-> r.url,
    summary |-> r.summary,
    shortSummary |-> makeShortSummary(IF r.summary # <<>> THEN r.summary ELSE r.title) ]

\* Math.max(1, Math.min(500, parseInt(get('limit') || '20', 10)))
EffectiveLimit(param) ==
  MathMax(1, MathMin(500, parseInt(IF param # <<>> THEN param ELSE <<"2", "0">>)))

\* Math.max(0, parseInt(get('offset') || '0', 10))
EffectiveOffset(param) ==
  MathMax(0, parseInt(IF param # <<>> THEN param ELSE <<"0">>))

\* sorted.slice(offset, offset + limit): a NaN bound is read as 0.
SliceRows(sorted, offset, limit) ==
  LET from == IF offset.nan THEN 0 ELSE offset.val
      to == IF offset.nan \/ limit.nan THEN 0 ELSE offset.val + limit.val
      hi == IF to > Len(sorted) THEN Len(sorted) ELSE to
  IN  IF from >= hi THEN <<>> ELSE SubSeq(sorted, from + 1, hi)

ItemsPage(filtered, offset, limit) ==
  LET order == SortItems(filtered, DOMAIN filtered)
      page == SliceRows([ k \in DOMAIN order |-> filtered[order[k]] ], offset, limit)
  IN  [ status |-> 200,
        total |-> Len(filtered),
        items |-> [ k \in DOMAIN page |-> compact(page[k]) ] ]

\* What the items handler computes for a query: the effective limit and
\* offset, the merge, the filtered rows and the response.
ItemsHandled(query, merged, filtered, limit, offset) ==
  [ route |-> "items",
    query |-> query,
    limit |-> limit,
    offset |-> offset,
    consulted |-> merged.consulted,
    rows |-> merged.rows,
    filtered |-> filtered,
    resp |-> IF merged.rows = <<>>
             THEN [ status |-> 200, total |-> 0, items |-> <<>> ]
             ELSE ItemsPage(filtered, offset, limit) ]

ItemsFiltered(query, merged, f) ==
  CHOOSE h \in
    { ItemsHandled(query, merged, filtered, limit, offset) :
        filtered \in { SelectSeq(merged.rows, LAMBDA r : ItemsKeeps(r, f)) },
        limit \in { EffectiveLimit(query.limit) },
        offset \in { EffectiveOffset(query.offset) } }
    : TRUE

ItemsGET(query, envJson, fs) ==
  CHOOSE h \in { ItemsFiltered(query, merged, f) :
                   merged \in { ItemsMerge(fs, query.csv, envJson) },
                   f \in { Filters(query) } } : TRUE

----------------------------------------------------------------------------
(* Datasets, queries and the specification of the two query handlers      *)

Row(section, category, title, summary, date, dateIso, year, month, url) ==
  [ section |-> section, category |-> category, title |-> title,
    summary |-> summary, date |-> date, date_iso |-> dateIso,
    year |-> year, month |-> month, url |-> url ]

\* Six rows: sections and categories that differ in case and white space or
\* are blank, a text found only in a summary, two rows of one day, a row
\* dated by year and month only, and a row without any date.
RowPool ==
  << Row(<<"n", "e", "w", "s">>, <<"L", "a", "n", "d">>, <<"F", "i", "s", "h">>, <<"c", "r", "o", "p", " ", "b">>, <<"1", "0", " ", "J", "a", "n">>, <<"2", "0", "2", "4", "-", "0", "1", "-", "1", "0">>, <<>>, <<>>, <<"u", "1">>),
     Row(<<" ", "N", "e", "w", "s">>, <<"l", "a", "n", "d", " ">>, <<"c", "r", "o", "p">>, <<>>, <<"5", " ", "D", "e", "c">>, <<"2", "0", "2", "3", "-", "1", "2", "-", "0", "5">>, <<>>, <<>>, <<"u", "2">>),
     Row(<<"i", "n", "s", "i", "g", "h", "t", "s">>, <<>>, <<"b", " ", "f", "i", "s", "h">>, <<"F", "i", "s", "h">>, <<>>, <<>>, <<"2", "0", "2", "3">>, <<"7">>, <<"u", "3">>),
     Row(<<>>, <<"W", "a", "t", "e", "r">>, <<>>, <<>>, <<>>, <<>>, <<>>, <<>>, <<"u", "4">>),
     Row(<<"n", "e", "w", "s">>, <<"W", "a", "t", "e", "r">>, <<"C", "r", "o", "p">>, <<"F", "i", "s", "h">>, <<"1", "0", " ", "J", "a", "n">>, <<"2", "0", "2", "4", "-", "0", "1", "-", "1", "0">>, <<"2", "0", "2", "4">>, <<"1">>, <<"u", "5">>),
     Row(<<"i", "n", "s", "i", "g", "h", "t", "s">>, <<"L", "a", "n", "d">>, <<"a", "p", "p", "l", "e">>, <<"f", "i", "s", "h", " ", "b">>, <<"1", " ", "F", "e", "b">>, <<"2", "0", "2", "4", "-", "0", "2", "-", "0", "1">>, <<>>, <<>>, <<"u", "6">>) >>

\* The largest number of rows of a dataset in the worlds of the merge.
MaxDocRows == 3

\* The longest limit or offset parameter.
MaxParamLen == 3

\* The first k rows of the dataset at the i-th default location.
DocRows(i, k) ==
  [ j \in 1..k |-> RowPool[((2 * (i - 1) + j - 1) % Len(RowPool)) + 1] ]

Doc(rows) == [ kind |-> "doc", items |-> rows ]

\* What a read may find besides a document with an array of items: no file
\* (or no answer), content that is not JSON, the JSON value null, and a
\* document whose items is missing or not an array; for a URL, also an
\* answer with a non-success status.
FileFailures == [ kind : {"missing", "unparsable", "null", "noitems"} ]

UrlFailures == FileFailures \cup { [ kind |-> "notok" ] }

\* What may be found at the i-th default location.
DefaultOutcomes(i) ==
  { [ kind |-> "missing" ] } \cup { Doc(DocRows(i, k)) : k \in 0..MaxDocRows }
  \cup (IF i = 2 THEN FileFailures ELSE {})

\* The worlds of a merge of the default datasets: everything may happen to
\* the first three, the last three are all there or all missing.
DefaultWorlds ==
  { [ l \in { defaultPublicPaths[i] : i \in 1..6 } |->
        LET i == CHOOSE i \in 1..6 : defaultPublicPaths[i] = l
        IN  IF i <= 3 THEN first[i]
            ELSE IF rest THEN Doc(DocRows(i, 1)) ELSE [ kind |-> "missing" ] ] :
      first \in { f \in [ 1..3 -> UNION { DefaultOutcomes(i) : i \in 1..3 } ] :
                     \A i \in 1..3 : f[i] \in DefaultOutcomes(i) },
      rest \in BOOLEAN }

LocalOverride == <<"d", "a", "t", "a", "/", "x", ".", "j", "s", "o", "n">>

RemoteOverride == <<"h", "t", "t", "p", "s", ":", "/", "/", "h", "/", "x", ".", "j", "s", "o", "n">>

EnvOverride == <<"d", "a", "t", "a", "/", "e", "n", "v", ".", "j", "s", "o", "n">>

\* Every default dataset is there, with one row.
AllDefaults ==
  [ l \in { defaultPublicPaths[i] : i \in 1..6 } |->
      Doc(DocRows(CHOOSE i \in 1..6 : defaultPublicPaths[i] = l, 1)) ]

\* The worlds of an override: every default dataset is there, and anything
\* may be found at the override locations.
OverrideWorlds ==
  { [ l \in DOMAIN AllDefaults \cup { LocalOverride, RemoteOverride, EnvOverride } |->
        IF l = LocalOverride THEN x
        ELSE IF l = RemoteOverride THEN u
        ELSE IF l = EnvOverride THEN e
        ELSE AllDefaults[l] ] :
      x \in FileFailures \cup { Doc(DocRows(1, 2)) },
      u \in UrlFailures \cup { Doc(DocRows(2, 2)) },
      e \in { [ kind |-> "missing" ], Doc(DocRows(3, 2)) } }

\* The world of the filter and paging queries: two of the default datasets
\* are there and hold the six rows.
FilterWorld ==
  [ l \in { defaultPublicPaths[1], defaultPublicPaths[5] } |->
      IF l = defaultPublicPaths[1] THEN Doc(SubSeq(RowPool, 1, 3))
      ELSE Doc(SubSeq(RowPool, 4, 6)) ]

\* A world with one dataset, one of whose rows has a section named as the
\* prototype accessor of an object.
PrototypeRow ==
  Row(<<"_", "_", "p", "r", "o", "t", "o", "_", "_">>, <<"L", "a", "n", "d">>, <<"F", "i", "s", "h">>, <<>>, <<"1", " ", "F", "e", "b">>, <<"2", "0", "2", "4", "-", "0", "2", "-", "0", "1">>, <<>>, <<>>, <<"u", "7">>)

PrototypeWorld ==
  [ l \in { defaultPublicPaths[1] } |-> Doc(<< RowPool[1], PrototypeRow, RowPool[5] >>) ]

Query(csv, section, category, q, startYm, endYm, limit, offset) ==
  [ csv |-> csv, section |-> section, category |-> category, q |-> q,
    startYm |-> startYm, endYm |-> endYm, limit |-> limit, offset |-> offset ]

NoFilterQueries(csvs) ==
  { Query(csv, <<>>, <<>>, <<>>, <<>>, <<>>, <<>>, <<>>) : csv \in csvs }

FilterQueries ==
  { Query(<<>>, section, category, q, startYm, endYm, <<>>, <<>>) :
      section \in { <<>>, <<"n", "e", "w", "s">>, <<" ", "N", "E", "W", "S">>, <<"a", "l", "l">>, <<"z", "z", "z">> },
      category \in { <<>>, <<"l", "a", "n", "d">>, <<" ", "A", "l", "l", " ">> },
      q \in { <<>>, <<"F", "I", "S", "H">>, <<"b">> },
      startYm \in { <<>>, <<"2", "0", "2", "3", "-", "0", "7">>, <<"2", "0", "2", "4", "-", "0", "1">> },
      endYm \in { <<>>, <<"2", "0", "2", "3", "-", "1", "2">>, <<"2", "0", "2", "4", "-", "0", "1">> } }

\* The limit and offset parameters: every string of a sign, digits and a
\* letter up to MaxParamLen characters.
ParamChars == { "-", "0", "2", "9", "x" }

ParamStrings == UNION { [ 1..n -> ParamChars ] : n \in 0..MaxParamLen }

PagingQueries ==
  { Query(<<>>, section, <<>>, <<>>, <<>>, <<>>, limit, offset) :
      section \in { <<>>, <<"n", "e", "w", "s">> },
      limit \in { <<>>, <<"2">> },
      offset \in ParamStrings }
  \cup
  { Query(<<>>, section, <<>>, <<>>, <<>>, <<>>, limit, offset) :
      section \in { <<>>, <<"n", "e", "w", "s">> },
      limit \in ParamStrings,
      offset \in { <<>>, <<"2">> } }

Routes == { "aggregations", "items" }

NoKey == [ OPENAI_API_KEY |-> <<>>, JSON_PATH |-> <<>> ]

PrototypeQueries ==
  { Query(<<>>, section, <<>>, <<>>, <<>>, <<>>, <<>>, <<>>) :
      section \in { <<>>, <<"_", "_", "p", "r", "o", "t", "o", "_", "_">>, <<"n", "e", "w", "s">> } }

\* A request to one of the query handlers is being received: a merge of the
\* default datasets, an override, a filter query, a paging query or a query
\* of the world with the prototype row.
InitQuery ==
  /\ last = NoRequest
  /\ dashboard = NoPage
  /\ \/ /\ env = NoKey
        /\ files \in DefaultWorlds
        /\ pending \in [ route : Routes, query : NoFilterQueries({ <<>> }) ]
     \/ /\ env \in [ OPENAI_API_KEY : { <<>> }, JSON_PATH : { <<>>, EnvOverride } ]
        /\ files \in OverrideWorlds
        /\ pending \in [ route : Routes,
                         query : NoFilterQueries({ <<>>, LocalOverride, RemoteOverride }) ]
     \/ /\ env = NoKey
        /\ files = FilterWorld
        /\ pending \in [ route : Routes, query : FilterQueries ]
     \/ /\ env = NoKey
        /\ files = FilterWorld
        /\ pending \in [ route : {"items"}, query : PagingQueries ]
     \/ /\ env = NoKey
        /\ files = PrototypeWorld
        /\ pending \in [ route : Routes, query : PrototypeQueries ]

\* The handler of GET /api/aggregations, from the request to the response.
GETAggregations ==
  /\ pending.route = "aggregations"
  /\ last' = AggregationsGET(pending.query, env.JSON_PATH, files)
  /\ pending' = NoRequest
  /\ UNCHANGED << env, files, dashboard >>

\* The handler of GET /api/items, from the request to the response.
GETItems ==
  /\ pending.route = "items"
  /\ last' = ItemsGET(pending.query, env.JSON_PATH, files)
  /\ pending' = NoRequest
  /\ UNCHANGED << env, files, dashboard >>

NextQuery == GETAggregations \/ GETItems

SpecQuery == InitQuery /\ [][NextQuery]_vars

----------------------------------------------------------------------------
(* Claims about the two query handlers                                     *)

\* A request to a query handler has been answered.
QueryHandled == last.route \in Routes

\* The value of a section or category filter; empty when the filter is not
\* active (nothing given, or 'all').
ActiveValue(param) ==
  IF toLowerCase(trim(param)) \in { <<>>, <<"a", "l", "l">> } THEN <<>> ELSE toLowerCase(trim(param))

\* The record passes the section, category and text filters of the query as
\* the specification states them.
PassesStatedFilters(r, query) ==
  /\ ActiveValue(query.section) # <<>>
       => toLowerCase(trim(r.section)) = ActiveValue(query.section)
  /\ ActiveValue(query.category) # <<>>
       => toLowerCase(trim(r.category)) = ActiveValue(query.category)
  /\ trim(query.q) # <<>>
       => includes(toLowerCase(r.title \o <<" ">> \o r.summary), toLowerCase(trim(query.q)))

\* C3: in the aggregate query and in the listing query alike, the filtered
\* set holds exactly the records that pass every active filter, the text
\* filter searching the lower-cased title and summary and the section and
\* category filters comparing trimmed, lower-cased values.  (Stated for the
\* queries without a year-month range, whose filter is the subject of C4.)
C3_FilteredIffAllFiltersPass ==
  (QueryHandled /\ trim(last.query.startYm) = <<>> /\ trim(last.query.endYm) = <<>>)
    => last.filtered = SelectSeq(last.rows, LAMBDA r : PassesStatedFilters(r, last.query))

\* The year-month label the specification derives for a record: the prefix
\* of date_iso, else year and month, else 'Unknown'.
StatedYm(r) ==
  IF Len(trim(r.date_iso)) >= 7 THEN SubSeq(trim(r.date_iso), 1, 7)
  ELSE IF IsDigits(trim(r.year)) /\ IsDigits(trim(r.month))
  THEN padStart(trim(r.year), 4) \o <<"-">> \o padStart(trim(r.month), 2)
  ELSE Unknown

\* The number of months of a label YYYY-MM.
MonthsOf(lbl) ==
  DigitsValue(SubSeq(lbl, 1, 4), 4) * 12 + DigitsValue(SubSeq(lbl, 6, 7), 2)

\* The record passes the stated range test of the query.
InStatedRange(r, query) ==
  (trim(query.startYm) # <<>> \/ trim(query.endYm) # <<>>)
    => /\ StatedYm(r) # Unknown
       /\ trim(query.startYm) # <<>> => MonthsOf(trim(query.startYm)) <= MonthsOf(StatedYm(r))
       /\ trim(query.endYm) # <<>> => MonthsOf(StatedYm(r)) <= MonthsOf(trim(query.endYm))

\* C4: in both query modes a record is kept by an active year-month range
\* exactly when its label (date_iso prefix, else year and month) is not
\* 'Unknown' and lies in the inclusive range, an absent bound being open;
\* with no bound every record passes.  (Stated for the queries whose other
\* filters are not active.)
C4_RangeKeepsByDerivedLabel ==
  (/\ QueryHandled
   /\ ActiveValue(last.query.section) = <<>>
   /\ ActiveValue(last.query.category) = <<>>
   /\ trim(last.query.q) = <<>>)
    => last.filtered = SelectSeq(last.rows, LAMBDA r : InStatedRange(r, last.query))

\* The handler of the answered request can load the location: the items
\* handler reads paths and URLs, the aggregations handler reads every
\* location as a file, and no file is named by a URL.
Loads(loc) ==
  /\ Found(files, loc).kind = "doc"
  /\ last.route = "aggregations" => ~IsHttpUrl(loc)

\* The number of records of the k-th consulted source that are merged.
Contributed(k) ==
  IF Loads(last.consulted[k]) THEN Len(Found(files, last.consulted[k]).items) ELSE 0

\* The number of records merged from the sources before the k-th.
RECURSIVE MergedBefore(_)
MergedBefore(k) ==
  IF k <= 1 THEN 0 ELSE MergedBefore(k - 1) + Contributed(k - 1)

\* C5: the merged corpus is the concatenation, in source order, of the items
\* of every consulted dataset that loaded and parsed; a dataset that does
\* not, or that has no array of items, contributes nothing and the request
\* is answered all the same; nothing is dropped, duplicated or reordered.
C5_MergeConcatenatesLoaded ==
  QueryHandled =>
    /\ last.resp.status = 200
    /\ Len(last.rows) = MergedBefore(Len(last.consulted) + 1)
    /\ \A k \in DOMAIN last.consulted :
         \A j \in 1..Contributed(k) :
           last.rows[MergedBefore(k) + j] = Found(files, last.consulted[k]).items[j]

\* Datasets of two and three records around one that does not parse are
\* merged into five records.
C5_Witness ==
  /\ QueryHandled
  /\ last.consulted = defaultPublicPaths
  /\ Contributed(1) = 2
  /\ Found(files, defaultPublicPaths[2]).kind = "unparsable"
  /\ Contributed(3) = 3
  /\ Len(last.rows) = 5
  /\ last.resp.total = 5

\* C6: a non-empty override parameter makes the request consult that one
\* source, else a non-empty environment path makes it consult that one, and
\* only without both are the default datasets read; with an override that
\* does not load the corpus is empty though every default dataset is there.
C6_SourceSelection ==
  QueryHandled =>
    /\ last.query.csv # <<>> => last.consulted = << last.query.csv >>
    /\ (last.query.csv = <<>> /\ env.JSON_PATH # <<>>)
         => last.consulted = << env.JSON_PATH >>
    /\ (last.query.csv = <<>> /\ env.JSON_PATH = <<>>)
         => last.consulted = defaultPublicPaths
    /\ (last.query.csv # <<>> \/ env.JSON_PATH # <<>>)
         => LET loc == IF last.query.csv # <<>> THEN last.query.csv ELSE env.JSON_PATH
            IN  last.rows = IF Loads(loc) THEN Found(files, loc).items ELSE <<>>

\* An override that does not load leaves the corpus empty while the default
\* datasets and the environment path are there.
C6_Witness ==
  /\ QueryHandled
  /\ last.query.csv = LocalOverride
  /\ env.JSON_PATH = EnvOverride
  /\ Found(files, LocalOverride).kind = "missing"
  /\ Found(files, EnvOverride).kind = "doc"
  /\ Found(files, defaultPublicPaths[1]).kind = "doc"
  /\ last.rows = <<>>
  /\ last.resp.total = 0

\* C7: when the override is a reachable URL that returns a document with an
\* array of items, the aggregate query and the listing query alike build
\* their corpus from these items.
C7_UrlOverrideInBothModes ==
  (/\ QueryHandled
   /\ IsHttpUrl(last.query.csv)
   /\ Found(files, last.query.csv).kind = "doc")
    => last.rows = Found(files, last.query.csv).items

\* The trimmed values of a field over the unfiltered corpus.
TrimmedValues(field) ==
  { trim(last.rows[i][field]) : i \in DOMAIN last.rows } \ { <<>> }

\* The list holds exactly the values of the set, in ascending order.
SortedListOf(list, values) ==
  /\ { list[k] : k \in DOMAIN list } = values
  /\ \A k \in DOMAIN list : k > 1 => StrLess(list[k - 1], list[k])

\* C8: for a non-empty corpus the two facet lists are the sorted distinct
\* non-blank values over the whole unfiltered corpus, whatever the section,
\* category, q, startYm and endYm filters are and whether or not a record
\* passes them.
C8_FacetsOverUnfilteredCorpus ==
  (QueryHandled /\ last.route = "aggregations" /\ last.rows # <<>>)
    => /\ SortedListOf(last.resp.facets.sections, TrimmedValues("section"))
       /\ SortedListOf(last.resp.facets.categories, TrimmedValues("category"))

\* Filters that no record passes leave the facets of the six rows.
C8_Witness ==
  /\ QueryHandled
  /\ last.route = "aggregations"
  /\ last.query.section = <<"z", "z", "z">>
  /\ last.query.startYm # <<>>
  /\ last.filtered = <<>>
  /\ last.resp.total = 0
  /\ last.resp.facets.sections = << <<"N", "e", "w", "s">>, <<"i", "n", "s", "i", "g", "h", "t", "s">>, <<"n", "e", "w", "s">> >>
  /\ last.resp.facets.categories = << <<"L", "a", "n", "d">>, <<"W", "a", "t", "e", "r">>, <<"l", "a", "n", "d">> >>

\* The filtered rows in the order of the listing.
SortedFiltered ==
  LET order == SortItems(last.filtered, DOMAIN last.filtered)
  IN  [ k \in DOMAIN order |-> last.filtered[order[k]] ]

\* The number of records at the positions [offset, offset + limit) of a
\* sequence of n records.
PageLength(n, offset, limit) ==
  IF n - offset < 0 THEN 0 ELSE IF n - offset < limit THEN n - offset ELSE limit

\* C9: in the listing response total is the number of records that pass the
\* filters, whatever limit and offset are, and items is the sorted filtered
\* sequence at the positions [offset, offset + limit) for a limit in
\* [1, 500] and an offset >= 0, which are 20 and 0 when the parameter is not
\* given.
C9_TotalAndPage ==
  (QueryHandled /\ last.route = "items" /\ last.rows # <<>>)
    => /\ last.resp.total = Len(last.filtered)
       /\ \E sorted \in { SortedFiltered } :
            \E limit \in 1..500, offset \in 0..(Len(sorted) + 1) :
              /\ last.query.limit = <<>> => limit = 20
              /\ last.query.offset = <<>> => offset = 0
              /\ Len(last.resp.items) = PageLength(Len(sorted), offset, limit)
              /\ \A k \in DOMAIN last.resp.items :
                   last.resp.items[k] = compact(sorted[offset + k])

\* C10: for every value of the limit and offset parameters the effective
\* limit is an integer in [1, 500], 20 when the parameter is not given, and
\* the effective offset is an integer >= 0, 0 when it is not given.
C10_EffectiveLimitAndOffset ==
  (QueryHandled /\ last.route = "items")
    => /\ ~last.limit.nan
       /\ last.limit.val \in 1..500
       /\ last.query.limit = <<>> => last.limit.val = 20
       /\ ~last.offset.nan
       /\ last.offset.val >= 0
       /\ last.query.offset = <<>> => last.offset.val = 0

----------------------------------------------------------------------------
(* The year-month derivation applied to single records                     *)

\* The records the derivation is applied to: date_iso is absent, blank or an
\* ISO date (a day or a month, possibly surrounded by white space); year and
\* month are absent, natural numbers in decimal, or text.
DatedRecords ==
  { Row(<<>>, <<>>, <<>>, <<>>, <<>>, dateIso, year, month, <<>>) :
      dateIso \in { <<>>, <<" ", " ">>, <<"2", "0", "2", "4", "-", "0", "3", "-", "1", "5">>, <<" ", "2", "0", "2", "3", "-", "1", "2", "-", "0", "5", " ">>, <<"2", "0", "2", "4", "-", "0", "3">> },
      year \in { <<>>, <<"2", "0", "2", "3">>, <<"9", "8", "7">>, <<" ", "2", "0", "2", "4", " ">>, <<"x">> },
      month \in { <<>>, <<"7">>, <<"0", "7">>, <<"1", "2">>, <<" ", "3">>, <<"x">> } }

InitYm ==
  /\ env = NoKey
  /\ files = NoFiles
  /\ pending \in [ route : {"toYmLabel"}, r : DatedRecords ]
  /\ last = NoRequest
  /\ dashboard = NoPage

\* toYmLabel is applied to a record.
DeriveYm ==
  /\ pending.route = "toYmLabel"
  /\ last' = [ route |-> "toYmLabel", r |-> pending.r, label |-> toYmLabel(pending.r) ]
  /\ pending' = NoRequest
  /\ UNCHANGED << env, files, dashboard >>

SpecYm == InitYm /\ [][DeriveYm]_vars

\* The label is YYYY-MM for the year and month of the two numerals.
IsPaddedYm(label, year, month) ==
  /\ Len(label) = 7
  /\ label[5] = "-"
  /\ IsDigits(SubSeq(label, 1, 4))
  /\ IsDigits(SubSeq(label, 6, 7))
  /\ DigitsValue(SubSeq(label, 1, 4), 4) = DigitsValue(year, Len(year))
  /\ DigitsValue(SubSeq(label, 6, 7), 2) = DigitsValue(month, Len(month))

\* C11: the year-month of a record with a date_iso is the YYYY-MM prefix of
\* the date whatever its year and month fields are; else, of a record with
\* an integer year and month, the zero-padded YYYY-MM; else 'Unknown'.
C11_YmPrecedence ==
  last.route = "toYmLabel" =>
    IF trim(last.r.date_iso) # <<>>
    THEN last.label = SubSeq(trim(last.r.date_iso), 1, 7)
    ELSE IF IsDigits(trim(last.r.year)) /\ IsDigits(trim(last.r.month))
    THEN IsPaddedYm(last.label, trim(last.r.year), trim(last.r.month))
    ELSE last.label = Unknown

\* A record dated 2024-03-15 with year 2023 and month 7 is labelled 2024-03.
C11_Witness ==
  /\ last.route = "toYmLabel"
  /\ last.r.date_iso = <<"2", "0", "2", "4", "-", "0", "3", "-", "1", "5">>
  /\ last.r.year = <<"2", "0", "2", "3">>
  /\ last.r.month = <<"7">>
  /\ last.label = <<"2", "0", "2", "4", "-", "0", "3">>

----------------------------------------------------------------------------
(* More claims about the two query handlers                                *)

\* The value of the section or category parameter is the literal 'all'.
IsAll(param) == toLowerCase(trim(param)) = <<"a", "l", "l">>

\* The query without its section and category filters that are 'all'.
WithoutAll(query) ==
  [ query EXCEPT !.section = IF IsAll(@) THEN <<>> ELSE @,
                 !.category = IF IsAll(@) THEN <<>> ELSE @ ]

\* What the handler of the answered request computes for another query.
Answer(query) ==
  IF last.route = "aggregations" THEN AggregationsGET(query, env.JSON_PATH, files)
  ELSE ItemsGET(query, env.JSON_PATH, files)

\* C12: a section or category filter that is the literal 'all', in any
\* letter case and with white space around it, gives the filtered set and
\* the response, aggregate or listing, of the query without that filter.
C12_AllIsNoFilter ==
  (QueryHandled /\ (IsAll(last.query.section) \/ IsAll(last.query.category)))
    => /\ last.filtered = Answer(WithoutAll(last.query)).filtered
       /\ last.resp = Answer(WithoutAll(last.query)).resp

\* A listing with both filters 'all' and a text filter that some records
\* pass and some do not.
C12_Witness ==
  /\ QueryHandled
  /\ last.route = "items"
  /\ last.query.section = <<"a", "l", "l">>
  /\ last.query.category = <<" ", "A", "l", "l", " ">>
  /\ last.query.q = <<"F", "I", "S", "H">>
  /\ Len(last.filtered) \in 1..(Len(last.rows) - 1)
  /\ last.resp.total = Len(last.filtered)

\* The YYYYMM integer of a label, 0 for 'Unknown'.
YmNumber(label) ==
  IF label = Unknown THEN 0 ELSE DigitsValue(removeDashes(label), Len(removeDashes(label)))

\* The filtered records with the label.
FilteredWithLabel(label) ==
  { i \in DOMAIN last.filtered : StatedYm(last.filtered[i]) = label }

\* C13: the labels of by_year_month are exactly the distinct year-month
\* labels of the filtered records, in ascending order of the YYYYMM integer
\* with 'Unknown' first, and each count is the number of filtered records
\* with the label: every count is at least 1 and the counts sum to total.
C13_YearMonthSeries ==
  (QueryHandled /\ last.route = "aggregations")
    => LET labels == last.resp.by_year_month.labels
           counts == last.resp.by_year_month.counts
       IN  /\ DOMAIN counts = DOMAIN labels
           /\ { labels[k] : k \in DOMAIN labels }
                = { StatedYm(last.filtered[i]) : i \in DOMAIN last.filtered }
           /\ \A k \in DOMAIN labels :
                k > 1 => YmNumber(labels[k - 1]) < YmNumber(labels[k])
           /\ \A k \in DOMAIN labels :
                /\ counts[k] = Cardinality(FilteredWithLabel(labels[k]))
                /\ counts[k] >= 1
           /\ SumSeq(counts) = last.resp.total

\* The six rows give five labels, 'Unknown' first and one month with two
\* records.
C13_Witness ==
  /\ QueryHandled
  /\ last.route = "aggregations"
  /\ last.resp.total = 6
  /\ last.resp.by_year_month.labels
       = << Unknown, <<"2", "0", "2", "3", "-", "0", "7">>, <<"2", "0", "2", "3", "-", "1", "2">>, <<"2", "0", "2", "4", "-", "0", "1">>, <<"2", "0", "2", "4", "-", "0", "2">> >>
  /\ last.resp.by_year_month.counts = << 1, 1, 1, 2, 1 >>

\* The record of the corpus that an item of the listing shows (the urls of
\* the modelled rows tell them apart).
RowOfItem(item) ==
  last.rows[CHOOSE i \in DOMAIN last.rows : last.rows[i].url = item.url]

\* The numeric date key: date_iso without its dashes, 0 without a date.
StatedDateKey(r) ==
  IF r.date_iso = <<>> THEN 0
  ELSE DigitsValue(SelectSeq(r.date_iso, IsDigit), Len(SelectSeq(r.date_iso, IsDigit)))

\* C14: the listing is in descending order of the numeric date key, a record
\* without date_iso having key 0, and records of one key are in ascending
\* order of the lower-cased title: of two adjacent items the earlier has a
\* greater key, or the same key and a title that is not greater.
C14_ListingOrder ==
  (QueryHandled /\ last.route = "items")
    => \A k \in 1..(Len(last.resp.items) - 1) :
         LET a == RowOfItem(last.resp.items[k])
             b == RowOfItem(last.resp.items[k + 1])
         IN  \/ StatedDateKey(a) > StatedDateKey(b)
             \/ /\ StatedDateKey(a) = StatedDateKey(b)
                /\ ~StrLess(toLowerCase(b.title), toLowerCase(a.title))

\* The listing of the six rows: the newest first, the two records of one day
\* by title, the two undated records last.
C14_Witness ==
  /\ QueryHandled
  /\ last.route = "items"
  /\ [ k \in DOMAIN last.resp.items |-> last.resp.items[k].url ]
       = << <<"u", "6">>, <<"u", "5">>, <<"u", "1">>, <<"u", "2">>, <<"u", "4">>, <<"u", "3">> >>

----------------------------------------------------------------------------
(* The classifier applied to titles and summaries                          *)

\* The largest number of phrases of a classified summary.
MaxPhrases == 2

\* Phrases with keywords of one area or of several, in either letter case,
\* with weight 1 and more, with and without a space, and with no keyword.
Phrases ==
  { <<"f", "i", "s", "h", "e", "r">>, <<"F", "o", "r", "e", "s", "t">>, <<"w", "o", "m", "e", "n">>, <<"e", "q", "u", "a", "l">>, <<"l", "a", "n", "d", " ", "r", "i", "g", "h", "t", "s">>, <<"t", "h", "e">>, <<"g", "o", "a", "t">> }

\* The summaries: up to MaxPhrases phrases, one space between them.
PhraseTexts ==
  { join(ps, <<" ">>) : ps \in UNION { [ 1..n -> Phrases ] : n \in 0..MaxPhrases } }

ClassifiedTitles == { <<>>, <<"C", "r", "o", "p">>, <<"W", "O", "M", "E", "N">> }

InitClassify ==
  /\ env = NoKey
  /\ files = NoFiles
  /\ pending \in [ route : {"categorize"}, title : ClassifiedTitles, summary : PhraseTexts ]
  /\ last = NoRequest
  /\ dashboard = NoPage

\* categorize is applied to a title and a summary; best and bestScore are
\* the values of its loop variables when the loop ends.
Classify ==
  /\ pending.route = "categorize"
  /\ \E res \in { LoopResult(pending.title, pending.summary) } :
       last' = [ route |-> "categorize", title |-> pending.title,
                 summary |-> pending.summary,
                 best |-> res[1],
                 bestScore |-> res[2],
                 category |-> categorize(pending.title, pending.summary) ]
  /\ pending' = NoRequest
  /\ UNCHANGED << env, files, dashboard >>

SpecClassify == InitClassify /\ [][Classify]_vars

\* The lower-cased title and summary that the keywords are searched in.
ClassifiedText == toLowerCase(last.title \o <<" ">> \o last.summary)

\* The keywords of the n-th area that occur in the text.
Matched(n, text) ==
  { k \in DOMAIN areas[n][2] : includes(text, areas[n][2][k][1]) }

\* The sum of the weights of a set of keywords of the n-th area.
RECURSIVE WeightOf(_, _)
WeightOf(n, ks) ==
  IF ks = {} THEN 0
  ELSE LET k == CHOOSE k \in ks : TRUE
       IN  areas[n][2][k][2] + WeightOf(n, ks \ {k})

\* The stated score of every area: the weights of its keywords that occur,
\* and 1 more for each of them that contains a space.
StatedScores(text) ==
  [ n \in DOMAIN areas |->
      WeightOf(n, Matched(n, text))
      + Cardinality({ k \in Matched(n, text) : \E i \in DOMAIN areas[n][2][k][1] :
                                                  areas[n][2][k][1][i] = " " }) ]

\* The earliest area of the catalogue among those of the highest score.
EarliestBest(sc) ==
  CHOOSE n \in DOMAIN sc :
    /\ \A m \in DOMAIN sc : sc[m] <= sc[n]
    /\ \A m \in 1..(n - 1) : sc[m] < sc[n]

\* C15 as stated: the classifier returns the category of the highest score,
\* the earliest of the catalogue when several share it.
C15_HighestScoreEarliestWins ==
  last.route = "categorize" =>
    \E sc \in { StatedScores(ClassifiedText) } :
      last.category = areas[EarliestBest(sc)][1]

\* C15 as amended: when a keyword of the catalogue occurs in the text, the
\* classifier returns the category of the highest score, the earliest of the
\* catalogue when several share it; when none occurs, every score is 0 and
\* it returns the default category, which is the last of the catalogue.
C15_HighestScoreOrDefault ==
  last.route = "categorize" =>
    \E sc \in { StatedScores(ClassifiedText) } :
      IF sc[EarliestBest(sc)] > 0
      THEN last.category = areas[EarliestBest(sc)][1]
      ELSE last.category = DefaultCategory /\ DefaultCategory # areas[1][1]

\* Two areas share the highest score, the later one named first in the text,
\* and the earlier one of the catalogue is returned.
C15_Witness ==
  /\ last.route = "categorize"
  /\ last.title = <<>>
  /\ last.summary = <<"F", "o", "r", "e", "s", "t", " ", "f", "i", "s", "h", "e", "r">>
  /\ StatedScores(ClassifiedText)[1] = 2
  /\ StatedScores(ClassifiedText)[2] = 2
  /\ last.category = areas[1][1]

\* The highest stated score of a text.
HighestScore(sc) == sc[EarliestBest(sc)]

\* C16: when the highest score of a text is below the floor 2, and so when
\* no keyword occurs, the classifier returns the default category "Gender
\* equality and women's empowerment"; a category other than the default is
\* returned only with a score of at least 2.
C16_ConfidenceFloor ==
  last.route = "categorize" =>
    \E sc \in { StatedScores(ClassifiedText) } :
      /\ DefaultCategory = <<"G", "e", "n", "d", "e", "r", " ", "e", "q", "u", "a", "l", "i", "t", "y", " ", "a", "n", "d", " ", "w", "o", "m", "e", "n", "'", "s", " ", "e", "m", "p", "o", "w", "e", "r", "m", "e", "n", "t">>
      /\ HighestScore(sc) < 2 => last.category = DefaultCategory
      /\ last.category # DefaultCategory =>
           \E n \in DOMAIN areas : areas[n][1] = last.category /\ sc[n] >= 2

\* A text whose only keyword has weight 1 is given the default category.
C16_Witness ==
  /\ last.route = "categorize"
  /\ last.title = <<>>
  /\ last.summary = <<"w", "o", "m", "e", "n", " ", "t", "h", "e">>
  /\ HighestScore(StatedScores(ClassifiedText)) = 1
  /\ last.category = <<"G", "e", "n", "d", "e", "r", " ", "e", "q", "u", "a", "l", "i", "t", "y", " ", "a", "n", "d", " ", "w", "o", "m", "e", "n", "'", "s", " ", "e", "m", "p", "o", "w", "e", "r", "m", "e", "n", "t">>

\* The areas with a keyword that occurs in the text.
MatchedAreas(text) == { n \in DOMAIN areas : Matched(n, text) # {} }

\* C17: when every keyword of the catalogue that occurs in the text is of
\* one category, the classifier returns this category if its score is at
\* least 2 and the default category otherwise.
C17_SingleCategoryText ==
  last.route = "categorize" =>
    \E sc \in { StatedScores(ClassifiedText) } :
      \A a \in DOMAIN areas :
        MatchedAreas(ClassifiedText) = {a}
          => last.category = IF sc[a] >= 2 THEN areas[a][1] ELSE DefaultCategory

\* The only keywords of the text are of the third area, which is returned.
C17_Witness ==
  /\ last.route = "categorize"
  /\ last.summary = <<"t", "h", "e", " ", "g", "o", "a", "t">>
  /\ MatchedAreas(ClassifiedText) = {3}
  /\ last.category = <<"G", "e", "n", "d", "e", "r", " ", "a", "n", "d", " ", "l", "i", "v", "e", "s", "t", "o", "c", "k">>

----------------------------------------------------------------------------
(* The extractive summarizer applied to texts                              *)

\* The largest maxSentences of a summary.
MaxSentences == 3

\* The largest number of pieces of a summarized text.
MaxPieces == 3

\* Pieces of text: sentences of different weight ending in each terminal,
\* a fragment without a terminal, and a sentence of a word that every
\* object inherits as a property.
Pieces ==
  { <<"F", "i", "s", "h", " ", "f", "e", "e", "d", " ", "w", "o", "m", "e", "n", ".">>, <<"N", "o", ".">>, <<"W", "o", "m", "e", "n", " ", "s", "e", "l", "l", " ", "f", "i", "s", "h", "!">>, <<"c", "r", "o", "p", " ", "f", "a", "i", "l", "s", "?">>, <<"a", " ", "b">>,
    <<"C", "o", "n", "s", "t", "r", "u", "c", "t", "o", "r", " ", "c", "o", "n", "s", "t", "r", "u", "c", "t", "o", "r", ".">> }

\* The white space between two pieces.
PieceSeparators == { <<" ">>, <<"\n", " ", " ">> }

\* The texts: up to MaxPieces pieces with one of the separators between
\* them, and the same with white space around.
SummarizedTexts ==
  UNION { { join(ps, sep), <<" ">> \o join(ps, sep) \o <<"\n">> } :
            ps \in UNION { [ 1..n -> Pieces ] : n \in 0..MaxPieces },
            sep \in PieceSeparators }

InitSummary ==
  /\ env = NoKey
  /\ files = NoFiles
  /\ pending \in [ route : {"summarizeExtractive"}, text : SummarizedTexts,
                    maxSentences : 1..MaxSentences ]
  /\ last = NoRequest
  /\ dashboard = NoPage

\* summarizeExtractive is applied to a text.
Summarize ==
  /\ pending.route = "summarizeExtractive"
  /\ \E summary \in SummaryOutcomes(pending.text, pending.maxSentences) :
       last' = [ route |-> "summarizeExtractive", text |-> pending.text,
                 maxSentences |-> pending.maxSentences,
                 summary |-> summary ]
  /\ pending' = NoRequest
  /\ UNCHANGED << env, files, dashboard >>

SpecSummary == InitSummary /\ [][Summarize]_vars

\* The places of a normalized text where a sentence ends: the spaces that
\* follow a terminal.
SentenceCuts(body) ==
  SortAscending({ i \in DOMAIN body : i > 1 /\ body[i] = " " /\ IsTerminal(body[i - 1]) })

\* The sentences of a normalized text: what lies between the cuts.
StatedSentences(body) ==
  IF body = <<>> THEN <<>>
  ELSE LET cuts == SentenceCuts(body)
       IN  [ k \in 1..(Len(cuts) + 1) |->
               SubSeq(body,
                      IF k = 1 THEN 1 ELSE cuts[k - 1] + 1,
                      IF k = Len(cuts) + 1 THEN Len(body) ELSE cuts[k] - 1) ]

\* The sentences at a set of places, in text order, one space between them.
Excerpt(sents, places) ==
  LET order == SortAscending(places)
  IN  join([ k \in DOMAIN order |-> sents[order[k]] ], <<" ">>)

\* C18: for every text and every positive maxSentences the summary is made
\* of at most maxSentences sentences of the white-space-normalized text, in
\* the order they have in the text.
C18_SummaryIsOrderedExcerpt ==
  last.route = "summarizeExtractive" =>
    \E sents \in { StatedSentences(normalizeSpace(last.text)) } :
      \E places \in SUBSET DOMAIN sents :
        /\ Cardinality(places) <= last.maxSentences
        /\ last.summary = Excerpt(sents, places)

\* A text of three sentences, the second of the highest score, is summarized
\* by its first two sentences in text order.
C18_Witness ==
  /\ last.route = "summarizeExtractive"
  /\ last.text = <<"c", "r", "o", "p", " ", "f", "a", "i", "l", "s", "?", " ", "F", "i", "s", "h", " ", "f", "e", "e", "d", " ", "w", "o", "m", "e", "n", ".", " ", "N", "o", ".">>
  /\ last.maxSentences = 2
  /\ last.summary = <<"c", "r", "o", "p", " ", "f", "a", "i", "l", "s", "?", " ", "F", "i", "s", "h", " ", "f", "e", "e", "d", " ", "w", "o", "m", "e", "n", ".">>

\* C19: a text of at most maxSentences sentences is summarized by all its
\* sentences, unmodified and in their order, with one space between them,
\* which is the normalized text; an empty or blank text by the empty string.
C19_ShortTextReturnedWhole ==
  last.route = "summarizeExtractive" =>
    \E sents \in { StatedSentences(normalizeSpace(last.text)) } :
      /\ Len(sents) <= last.maxSentences =>
           /\ last.summary = Excerpt(sents, DOMAIN sents)
           /\ last.summary = normalizeSpace(last.text)
      /\ (\A i \in DOMAIN last.text : IsSpace(last.text[i])) => last.summary = <<>>

\* A text of exactly maxSentences sentences with newlines between them is
\* returned with single spaces.
C19_Witness ==
  /\ last.route = "summarizeExtractive"
  /\ last.text = <<" ">> \o <<"N", "o", ".">> \o <<"\n", " ", " ">> \o <<"a", " ", "b">> \o <<"\n", " ", " ">> \o <<"c", "r", "o", "p", " ", "f", "a", "i", "l", "s", "?">> \o <<"\n">>
  /\ last.maxSentences = 2
  /\ last.summary = <<"N", "o", ".", " ", "a", " ", "b", " ", "c", "r", "o", "p", " ", "f", "a", "i", "l", "s", "?">>

----------------------------------------------------------------------------
(* More claims about POST /api/summarize                                   *)

\* The request does not pass validation: its body cannot be parsed, or its
\* url is missing, empty or not an http(s) url.
InvalidRequest == last.route = "summarize" /\ ~ValidRequest

\* C20: a classification request whose url is missing, empty or not an
\* http(s) url, or whose body cannot be parsed, is rejected as a client
\* error; no network fetch is issued for it and the extractor, summarizer,
\* classifier and remote adapter give it no result.
C20_InvalidRequestIsClientError ==
  InvalidRequest =>
    /\ last.resp.status \in 400..499
    /\ last.resp.calls = <<>>
    /\ DOMAIN last.resp \cap {"title", "summary", "category", "method"} = {}

----------------------------------------------------------------------------
(* The compact record of the listing applied to single records            *)

\* The largest number of characters by which a text exceeds the limit of
\* the short summary.
MaxOver == 3

\* A text of n letters, with a space at the place gap when gap is in 1..n.
LongText(n, gap) == [ i \in 1..n |-> IF i = gap THEN " " ELSE "a" ]

\* Texts around the limit, with a space before, at and after the cut.
LongTexts ==
  { LongText(n, gap) :
      n \in (ShortSummaryLimit - 2)..(ShortSummaryLimit + MaxOver),
      gap \in { 0, ShortSummaryLimit - 2, ShortSummaryLimit - 1, ShortSummaryLimit } }

\* The records: the summary is absent, blank, short or around the limit, and
\* so is the title.
SummarizedRecords ==
  { Row(<<"n", "e", "w", "s">>, <<"L", "a", "n", "d">>, title, summary, <<"1", "0", " ", "J", "a", "n">>, <<"2", "0", "2", "4", "-", "0", "1", "-", "1", "0">>, <<>>, <<>>, <<"u", "1">>) :
      title \in { <<>>, <<"C", "r", "o", "p">>, LongText(ShortSummaryLimit + 1, 0) },
      summary \in { <<>>, <<" ", " ">>, <<" ", "F", "i", "s", "h", " ">> } \cup LongTexts }

InitCompact ==
  /\ env = NoKey
  /\ files = NoFiles
  /\ pending \in [ route : {"compact"}, r : SummarizedRecords ]
  /\ last = NoRequest
  /\ dashboard = NoPage

\* The compact record of the listing is made of a record.
Compact ==
  /\ pending.route = "compact"
  /\ last' = [ route |-> "compact", r |-> pending.r, item |-> compact(pending.r) ]
  /\ pending' = NoRequest
  /\ UNCHANGED << env, files, dashboard >>

SpecCompact == InitCompact /\ [][Compact]_vars

\* The trimmed text the short summary is made of: the summary, or the title
\* when the summary is blank.
ShortSummarySource ==
  trim(IF trim(last.r.summary) # <<>> THEN last.r.summary ELSE last.r.title)

\* The text ends with the ellipsis marker after a prefix of the source.
IsCutOf(short, source) ==
  /\ Len(short) >= Len(EllipsisMarker)
  /\ SubSeq(short, Len(short) - Len(EllipsisMarker) + 1, Len(short)) = EllipsisMarker
  /\ SubSeq(short, 1, Len(short) - Len(EllipsisMarker))
       = SubSeq(source, 1, Len(short) - Len(EllipsisMarker))

\* C21: the shortSummary of the listing is made of the summary of the
\* record, or of its title when the summary is blank: a trimmed text of at
\* most 240 characters is returned unchanged, a longer one is cut and ends
\* with the ellipsis marker, and the result never exceeds 240 characters.
C21_ShortSummaryWithinBudget ==
  last.route = "compact" =>
    /\ Len(ShortSummarySource) <= ShortSummaryLimit
         => last.item.shortSummary = ShortSummarySource
    /\ Len(ShortSummarySource) > ShortSummaryLimit
         => IsCutOf(last.item.shortSummary, ShortSummarySource)
    /\ Len(last.item.shortSummary) <= ShortSummaryLimit

\* The term-frequency score of a sentence of a text: over the words of the
\* sentence, the sum of the number of times the word occurs in the text, a
\* stop word and a word of one or two letters counting for nothing.
TermFrequency(words, w) ==
  IF Len(w) > 2 /\ w \notin stop
  THEN Cardinality({ k \in DOMAIN words : words[k] = w })
  ELSE 0

TermScore(words, sentence) ==
  LET toks == matchWords(toLowerCase(sentence))
  IN  SumSeq([ k \in DOMAIN toks |-> TermFrequency(words, toks[k]) ])

TermScores(body) ==
  LET words == matchWords(toLowerCase(body))
      sents == StatedSentences(body)
  IN  [ i \in DOMAIN sents |-> TermScore(words, sents[i]) ]

\* C22: the summary of a text of more than maxSentences sentences is made of
\* maxSentences sentences such that each of them has a higher term-frequency
\* score than every sentence left out, or the same score and an earlier
\* place in the text.
C22_TopSentencesByTermFrequency ==
  last.route = "summarizeExtractive" =>
    \E body \in { normalizeSpace(last.text) } :
      \E sents \in { StatedSentences(body) } :
        Len(sents) > last.maxSentences =>
          \E score \in { TermScores(body) } :
            \E places \in SUBSET DOMAIN sents :
              /\ Cardinality(places) = last.maxSentences
              /\ last.summary = Excerpt(sents, places)
              /\ \A i \in places : \A j \in DOMAIN sents \ places :
                   \/ score[i] > score[j]
                   \/ (score[i] = score[j] /\ i < j)
\* The outbound requests to the remote classifier that the handler issued
\* for the last request.
RemoteCalls ==
  Cardinality({ k \in DOMAIN last.resp.calls : last.resp.calls[k] = "remote" })

RemoteRequested == last.body.kind = "object" /\ last.body.agent

\* C23: a request issues at most one outbound request to the remote
\* classifier, whatever the remote service answers, and none when the
\* request does not ask for remote classification or no credential is
\* configured.
C23_AtMostOneRemoteCall ==
  last.route = "summarize" =>
    /\ RemoteCalls <= 1
    /\ (~RemoteRequested \/ env.OPENAI_API_KEY = <<>>) => RemoteCalls = 0

\* The remote service answered a request with a non-success status: the
\* handler called it once and answered from the heuristic path.
C23_Witness ==
  /\ ArticleFetched
  /\ RemoteRequested
  /\ env.OPENAI_API_KEY # <<>>
  /\ last.remote.kind = "notok"
  /\ last.resp.calls = << "article", "remote" >>
  /\ last.resp.method = "heuristic"

\* The bucket of a value: the value without the white space around it, and
\* the given name for a blank value.
BucketOf(value, blankName) == IF trim(value) = <<>> THEN blankName ELSE trim(value)

\* A list of {label, count} has one entry per bucket of the filtered
\* records, each with the number of records of its bucket, in non-increasing
\* order of count, and its counts add up to total.
IsCountList(list, buckets, total) ==
  /\ \A k, l \in DOMAIN list : list[k].label = list[l].label => k = l
  /\ { list[k].label : k \in DOMAIN list } = { buckets[i] : i \in DOMAIN buckets }
  /\ \A k \in DOMAIN list :
       list[k].count = Cardinality({ i \in DOMAIN buckets : buckets[i] = list[k].label })
  /\ \A k \in DOMAIN list : k > 1 => list[k - 1].count >= list[k].count
  /\ SumSeq([ k \in DOMAIN list |-> list[k].count ]) = total

\* C24: by_category and by_section have one entry per bucket of the filtered
\* records (a blank category under 'Uncategorized', a blank section under
\* 'unknown'), the count of an entry is the number of filtered records of
\* its bucket, the entries are in non-increasing order of count, and the
\* counts of each list add up to total.
C24_CountsPerBucket ==
  (QueryHandled /\ last.route = "aggregations") =>
    /\ IsCountList(last.resp.by_category,
                   [ i \in DOMAIN last.filtered |->
                       BucketOf(last.filtered[i].category, <<"U", "n", "c", "a", "t", "e", "g", "o", "r", "i", "z", "e", "d">>) ],
                   last.resp.total)
    /\ IsCountList(last.resp.by_section,
                   [ i \in DOMAIN last.filtered |->
                       BucketOf(last.filtered[i].section, <<"u", "n", "k", "n", "o", "w", "n">>) ],
                   last.resp.total)

\* Records are aggregated, some without a section and some without a
\* category: the 'unknown' bucket comes after a bucket of more records, and
\* 'Uncategorized' is among the categories.
C24_Witness ==
  /\ QueryHandled
  /\ last.route = "aggregations"
  /\ \E k \in DOMAIN last.resp.by_section :
       /\ last.resp.by_section[k].label = <<"u", "n", "k", "n", "o", "w", "n">>
       /\ last.resp.by_section[1].count > last.resp.by_section[k].count
  /\ \E k \in DOMAIN last.resp.by_category :
       last.resp.by_category[k].label = <<"U", "n", "c", "a", "t", "e", "g", "o", "r", "i", "z", "e", "d">>

\* The sum over the given sections of the entries of their series at a
\* label.
RECURSIVE SeriesColumn(_, _, _)
SeriesColumn(series, keys, i) ==
  IF keys = {} THEN 0
  ELSE LET s == CHOOSE s \in keys : TRUE
       IN  series[s][i] + SeriesColumn(series, keys \ {s}, i)

\* C25: monthly_by_section has the labels of by_year_month and one series
\* per section bucket of the filtered records; a series has one entry per
\* label, the number of filtered records of its section bucket with that
\* label; and over the sections the entries at a label add up to the count
\* of by_year_month at that label.
C25_MonthlySeriesPerSection ==
  (QueryHandled /\ last.route = "aggregations") =>
    \E m \in { last.resp.monthly_by_section } :
      \E secs \in { [ i \in DOMAIN last.filtered |->
                       BucketOf(last.filtered[i].section, <<"u", "n", "k", "n", "o", "w", "n">>) ] } :
        /\ m.labels = last.resp.by_year_month.labels
        /\ DOMAIN m.series = { secs[i] : i \in DOMAIN secs }
        /\ \A s \in DOMAIN m.series :
             /\ Len(m.series[s]) = Len(m.labels)
             /\ \A k \in DOMAIN m.labels :
                  m.series[s][k] =
                    Cardinality({ i \in DOMAIN last.filtered :
                                    /\ secs[i] = s
                                    /\ toYmLabel(last.filtered[i]) = m.labels[k] })
        /\ \A k \in DOMAIN m.labels :
             SeriesColumn(m.series, DOMAIN m.series, k)
               = last.resp.by_year_month.counts[k]

\* The total that each query mode reports for the answered query in the
\* same environment and over the same files.
AggregateTotal == AggregationsGET(last.query, env.JSON_PATH, files).resp.total

ListingTotal == ItemsGET(last.query, env.JSON_PATH, files).resp.total

\* C26: for the same dataset state and the same dataset override, section,
\* category, q, startYm and endYm, the total of the aggregate query equals
\* the total of the listing query.
C26_TotalsAgree ==
  QueryHandled => AggregateTotal = ListingTotal

----------------------------------------------------------------------------
(* categorize applied to each keyword of the catalogue                     *)

\* The places of the catalogue: area and keyword.
KeywordPlaces ==
  UNION { { << n, k >> : k \in DOMAIN areas[n][2] } : n \in DOMAIN areas }

\* The text is one keyword of the catalogue, given as the summary or as the
\* title of an article.
InitKeyword ==
  /\ env = NoKey
  /\ files = NoFiles
  /\ pending \in [ route : {"keyword"}, place : KeywordPlaces, asTitle : BOOLEAN ]
  /\ last = NoRequest
  /\ dashboard = NoPage

ClassifyKeyword ==
  /\ pending.route = "keyword"
  /\ \E kw \in { areas[pending.place[1]][2][pending.place[2]][1] } :
       \E title \in { IF pending.asTitle THEN kw ELSE <<>> } :
         \E summary \in { IF pending.asTitle THEN <<>> ELSE kw } :
           last' = [ route |-> "keyword",
                     area |-> pending.place[1],
                     keyword |-> kw,
                     title |-> title,
                     summary |-> summary,
                     category |-> categorize(title, summary) ]
  /\ pending' = NoRequest
  /\ UNCHANGED << env, files, dashboard >>

SpecKeyword == InitKeyword /\ [][ClassifyKeyword]_vars

\* C29: a text that consists of one keyword of an area of the catalogue is
\* given the category of this area, or the default category when the score
\* of the area is below 2.
C29_KeywordAloneKeepsItsArea ==
  last.route = "keyword" =>
    \E sc \in { StatedScores(ClassifiedText) } :
      last.category = IF sc[last.area] >= 2 THEN areas[last.area][1]
                      ELSE DefaultCategory

\* C30: with the catalogue as shipped the floor never changes the result of
\* the classifier.  Only keywords of the default category have a weight
\* below 2; whenever the best score is below 2 the best label of the loop
\* is the default category; the category returned is the best label of the
\* loop, which is the earliest area of the highest score, or the default
\* category when no keyword occurs.
C30_FloorNeverChangesResult ==
  last.route = "categorize" =>
    \E sc \in { StatedScores(ClassifiedText) } :
      /\ \A n \in DOMAIN areas : \A k \in DOMAIN areas[n][2] :
           areas[n][2][k][2] < 2 => areas[n][1] = DefaultCategory
      /\ last.bestScore < 2 => last.best = DefaultCategory
      /\ last.category = last.best
      /\ last.category = IF HighestScore(sc) > 0 THEN areas[EarliestBest(sc)][1]
                         ELSE DefaultCategory

\* The best score of a text is 1, below the floor: the loop ends with the
\* default category as its best label, and the floor returns the same.
C30_Witness ==
  /\ last.route = "categorize"
  /\ last.bestScore = 1
  /\ last.best = DefaultCategory
  /\ last.category = last.best
  /\ HighestScore(StatedScores(ClassifiedText)) = 1

----------------------------------------------------------------------------
(* The dashboard page: src/unnamed/part_002 (src/app/layout.tsx holds the  *)
(* same component).  The page keeps filters and pagination; every render   *)
(* with new filters or a new pagination runs fetchData, which requests the *)
(* aggregate and the listing and, when both have answered, displays them.  *)
(* pending holds the runs of fetchData in flight; they complete in any     *)
(* order.                                                                  *)

\* The most runs of fetchData in one behaviour.
MaxRuns == 4

\* The number of records of the dataset behind the dashboard.
DashboardSize == 11

\* The records: all of section 'news' but the last, of section 'insights'.
DashboardRow(i) ==
  Row(IF i < DashboardSize THEN <<"n", "e", "w", "s">> ELSE <<"i", "n", "s", "i", "g", "h", "t", "s">>, <<"L", "a", "n", "d">>,
      NatToString(i), <<>>, <<"1", "0", " ", "J", "a", "n">>, <<"2", "0", "2", "4", "-", "0", "1", "-", "1", "0">>, <<>>, <<>>,
      <<"u">> \o NatToString(i))

DashboardWorld ==
  [ l \in { defaultPublicPaths[1] } |->
      Doc([ i \in 1..DashboardSize |-> DashboardRow(i) ]) ]

NoFilters ==
  [ section |-> <<>>, category |-> <<>>, q |-> <<>>, startYm |-> <<>>, endYm |-> <<>> ]

\* useState({ limit: 20, offset: 0 })
DefaultPageSize == 20

\* The options of the page size control.
PageSizes == { 10, 20, 50 }

\* The body of a response as the page stores it.
Body(resp) == [ k \in DOMAIN resp \ {"status"} |-> resp[k] ]

\* The parameters of the two requests of a run of fetchData.
AggUrl(filters) ==
  Query(<<>>, filters.section, filters.category, filters.q,
        filters.startYm, filters.endYm, <<>>, <<>>)

ItemsUrl(filters, pagination) ==
  Query(<<>>, filters.section, filters.category, filters.q,
        filters.startYm, filters.endYm,
        NatToString(pagination.limit), NatToString(pagination.offset))

\* What the servers answer to the two requests.
AggData(filters) == Body(AggregationsGET(AggUrl(filters), env.JSON_PATH, files).resp)

ItemsData(filters, pagination) ==
  Body(ItemsGET(ItemsUrl(filters, pagination), env.JSON_PATH, files).resp)

\* The page is mounted: first render, first run of fetchData in flight.
InitDashboard ==
  /\ env = NoKey
  /\ files = DashboardWorld
  /\ last = NoRequest
  /\ dashboard = [ mounted |-> TRUE,
              filters |-> NoFilters,
              pagination |-> [ limit |-> DefaultPageSize, offset |-> 0 ],
              agg |-> Null,
              items |-> Null,
              isLoading |-> TRUE,
              error |-> FALSE,
              runs |-> 1 ]
  /\ pending = << [ id |-> 1, filters |-> NoFilters,
                    pagination |-> [ limit |-> DefaultPageSize, offset |-> 0 ] ] >>

\* A state update of filters or pagination: the page renders again and the
\* effect starts a run of fetchData with the values of that render.
Select(filters, pagination) ==
  /\ dashboard.mounted
  /\ dashboard.runs < MaxRuns
  /\ dashboard' = [ dashboard EXCEPT !.filters = filters,
                           !.pagination = pagination,
                           !.isLoading = TRUE,
                           !.error = FALSE,
                           !.runs = @ + 1 ]
  /\ pending' = Append(pending, [ id |-> dashboard.runs + 1, filters |-> filters,
                                  pagination |-> pagination ])
  /\ UNCHANGED << env, files, last >>

\* Options of the section and category controls, and texts typed in the
\* search box.
SectionOptions == { <<>>, <<"i", "n", "s", "i", "g", "h", "t", "s">> }

CategoryOptions ==
  { <<>> } \cup (IF dashboard.agg = Null THEN {}
                 ELSE { toLowerCase(dashboard.agg.facets.categories[k]) :
                          k \in DOMAIN dashboard.agg.facets.categories })

SearchTexts == { <<>>, <<"1">> }

SelectSection ==
  \E v \in SectionOptions \ { dashboard.filters.section } :
    Select([ dashboard.filters EXCEPT !.section = v ], dashboard.pagination)

SelectCategory ==
  \E v \in CategoryOptions \ { dashboard.filters.category } :
    Select([ dashboard.filters EXCEPT !.category = v ], dashboard.pagination)

TypeSearch ==
  \E v \in SearchTexts \ { dashboard.filters.q } :
    Select([ dashboard.filters EXCEPT !.q = v ], dashboard.pagination)

\* The 'clear all' button, shown when a filter is set.
ClearFilters ==
  /\ dashboard.filters # NoFilters
  /\ Select(NoFilters, [ dashboard.pagination EXCEPT !.offset = 0 ])

\* agg?.total || 0
ShownTotal == IF dashboard.agg = Null THEN 0 ELSE dashboard.agg.total

PreviousPage ==
  /\ dashboard.pagination.offset # 0
  /\ Select(dashboard.filters,
            [ dashboard.pagination EXCEPT
                !.offset = IF @ - dashboard.pagination.limit > 0
                           THEN @ - dashboard.pagination.limit ELSE 0 ])

NextPage ==
  /\ ~(ShownTotal <= dashboard.pagination.offset + dashboard.pagination.limit)
  /\ Select(dashboard.filters,
            [ dashboard.pagination EXCEPT !.offset = @ + dashboard.pagination.limit ])

SelectPageSize ==
  \E n \in PageSizes \ { dashboard.pagination.limit } :
    Select(dashboard.filters, [ limit |-> n, offset |-> 0 ])

\* pending without its k-th run.
Settle(k) == SubSeq(pending, 1, k - 1) \o SubSeq(pending, k + 1, Len(pending))

\* Both requests of a run have answered: the page displays the answers.
Complete ==
  /\ dashboard.mounted
  /\ \E k \in DOMAIN pending :
       /\ dashboard' = [ dashboard EXCEPT
                      !.agg = AggData(pending[k].filters),
                      !.items = ItemsData(pending[k].filters, pending[k].pagination),
                      !.isLoading = FALSE ]
       /\ pending' = Settle(k)
  /\ UNCHANGED << env, files, last >>

\* A request of a run fails: the page displays empty data and the error.
Fail ==
  /\ dashboard.mounted
  /\ \E k \in DOMAIN pending :
       /\ dashboard' = [ dashboard EXCEPT
                      !.agg = Body(EmptyAggregation(<<>>)),
                      !.items = [ total |-> 0, items |-> <<>> ],
                      !.error = TRUE,
                      !.isLoading = FALSE ]
       /\ pending' = Settle(k)
  /\ UNCHANGED << env, files, last >>

NextDashboard ==
  \/ SelectSection
  \/ SelectCategory
  \/ TypeSearch
  \/ ClearFilters
  \/ PreviousPage
  \/ NextPage
  \/ SelectPageSize
  \/ Complete
  \/ Fail

SpecDashboard == InitDashboard /\ [][NextDashboard]_vars

\* No run of fetchData is in flight.
Settled == dashboard.mounted /\ pending = <<>>

\* C27: once every request in flight has completed, the aggregate and the
\* listing on display are the answers to the filters and the pagination
\* selected last (unless the page displays an error).
C27_LatestSelectionDisplayed ==
  (Settled /\ ~dashboard.error) =>
    /\ dashboard.agg = AggData(dashboard.filters)
    /\ dashboard.items = ItemsData(dashboard.filters, dashboard.pagination)

\* The number of records that match the selected filters.
FilteredTotal == ItemsData(dashboard.filters, dashboard.pagination).total

\* C28: with the responses settled, the offset is a non-negative multiple
\* of the page size and, when records match the filters, it is smaller
\* than their number.
C28_OffsetWithinTotal ==
  Settled =>
    /\ dashboard.pagination.offset >= 0
    /\ dashboard.pagination.offset % dashboard.pagination.limit = 0
    /\ FilteredTotal > 0 => dashboard.pagination.offset < FilteredTotal

====
